---- MODULE Spec2Model ----
(***************************************************************************)
(* Model of the thumbnail utility of wgergely/bookmarks                    *)
(* (src/src/src/imageutil.cpp): the lock-marker coordinator                *)
(* (CreateLockFile / RemoveLockFile under io_mutex), the sequence          *)
(* orchestrator (ConvertSequence and its process_images workers), the      *)
(* single-file entry point (wmain) and the size computation of             *)
(* ConvertImage.                                                           *)
(***************************************************************************)
EXTENDS Integers, Sequences, FiniteSets, TLC

(***************************************************************************)
(* Bounds of the model.                                                    *)
(***************************************************************************)
NumThreads == 2
TicksPerMinute == 2
TicksAfterStale == 1

\* imageutil.cpp:205  if (minutes_since_last_modified >= 5)
StaleMinutes == 5
StaleTicks == StaleMinutes * TicksPerMinute

\* The clock is read at 0 and then from one tick before the staleness
\* threshold up to MaxTime.
MaxTime == StaleTicks + TicksAfterStale

MaxInputs == 2

\* Threads of the lock coordinator's callers, frames (and so paths, one per
\* frame) of a sequence, and the threads a run can start: the main thread
\* and one worker per discovered input at most.
Threads == 1..NumThreads
Frames == 1..MaxInputs
Paths == Frames
LockPaths == {1}
AllThreads == 1..(IF NumThreads > MaxInputs THEN NumThreads ELSE MaxInputs)
Free == 0
NoMarker == [mtime |-> -1, creator |-> 0]

VARIABLES
    now,        \* the clock, in ticks (TicksPerMinute ticks make a minute)
    marker,     \* marker[p]: the file <p>.lock, NoMarker or [mtime, creator]
    io_mutex,   \* holder of std::mutex io_mutex, or Free
    pc,         \* pc[t]: position of thread t
    path,       \* path[t]: the `input` argument of the lock call in progress
    ret,        \* ret[t]: outcome of the last lock call: true / false / throw
    why,        \* why[t]: the branch on which that call ended
    cFresh,     \* history: the path had no marker when t's acquire was called,
                \* and no release has run on the path since
    grantLog,   \* history: grantLog[p], the successful acquires on p (thread,
                \* time) since the last release on p
    proc,       \* the process: "running", or how it died
    entry,      \* which entry point runs: "lock", "sequence" or "main"
    seqPc,      \* position of ConvertSequence
    seqIn,      \* the request and what the filesystem holds for it
    inputs,     \* std::vector<std::wstring> inputs: the discovered frames
    seqRet,     \* return value of ConvertSequence (-1: none yet)
    wStart,     \* start of worker t's chunk
    wEnd,       \* end of worker t's chunk
    wIndex,     \* index of worker t's for loop
    wConv,      \* r of worker t: the return value of ConvertImage
    wSite,      \* the call site of worker t's RemoveLockFile: "try" or "catch"
    att,        \* history: att[i], how often index i was taken up by a worker
    cur,        \* history: cur[t], what happened to the item worker t took up last
    written,    \* history: the _output paths computed: worker, index, output
    relFailed,  \* history: the paths whose last RemoveLockFile by a caller returned false
    argv,       \* wmain: the arguments after the program name
    exitCode,   \* wmain: its return value (-1: none yet)
    img,        \* ConvertImage: the source, [w, h, levels]: size of mip level 0
                \* and the number of mip levels
    sizeArg,    \* ConvertImage: the size argument as passed
    size,       \* ConvertImage: the local `size`
    ipc,        \* ConvertImage: position
    miplevel,   \* ConvertImage: miplevel
    best,       \* ConvertImage: best_match_miplevel
    largest,    \* ConvertImage: largest_spec, [w, h]
    bufSpec,    \* ConvertImage: spec_ = buf_.spec(), [w, h]
    outSize,    \* ConvertImage: [w |-> out_width, h |-> out_height]
    result,     \* ConvertImage: how out_buf was filled and its size, [how, w, h]
    chans,      \* ConvertImage: spec.channelnames of the source
    channel_indices, \* ConvertImage: channel_indices
    fileSize,   \* ConvertImage: the byte size of the input file, hi * 2^16 + lo
    outAttrs,   \* ConvertImage: the attributes of out_buf, name -> value
    wrOk,       \* ConvertImage: r of out_buf.write (and no error on out_buf)
    outFile,    \* ConvertImage: the output path: "absent", "empty" or "data"
    deep,       \* ConvertImage: spec_.deep of the source
    srcAttrs,   \* ConvertImage: the attributes of the source, name -> value
    stageLog,   \* ConvertImage: the stages that failed and were passed over
    invalidated, \* ConvertImage: the paths whose ImageCache entries were invalidated
    cret,       \* ConvertImage: how the call ended: "none", 0, 1 as "ret0", "ret1",
                \* "throw" or "crash"
    fileName,   \* ConvertInputToRegex: the file name of input
    entryName,  \* ConvertSequence: the file name of a directory entry
    fileNameRe, \* ConvertSequence: file_name_re, "unset" before the call
    matched     \* ConvertSequence: regex_match(entry_name, *file_name_re)

lockVars == <<now, marker, io_mutex, pc, path, ret, why>>
histVars == <<cFresh, grantLog>>
seqVars == <<entry, seqPc, seqIn, inputs, seqRet, wStart, wEnd, wIndex, wConv, wSite, att, cur, written, relFailed>>
mainVars == <<argv, exitCode>>
imgVars == <<img, sizeArg, size, ipc, miplevel, best, largest, bufSpec, outSize, result,
            chans, channel_indices, fileSize, outAttrs, wrOk, outFile, deep, srcAttrs, stageLog,
            invalidated, cret>>
regexVars == <<fileName, entryName, fileNameRe, matched>>
nonLockVars == <<proc, seqVars, mainVars, imgVars, regexVars>>
vars == <<lockVars, histVars, nonLockVars>>

(***************************************************************************)
(* The filesystem as the lock coordinator sees it.                         *)
(***************************************************************************)
Exists(m) == m # NoMarker

\* What std::filesystem::remove can do to an existing file: delete it, throw
\* filesystem_error, or report no error while the path still exists
\* afterwards (the case RemoveLockFile tests for with exists()).
FsRemoveOutcomes == {"removed", "error", "remains"}

\* imageutil.cpp:187-201: last_write_time, converted to the system clock,
\* subtracted from now() and duration_cast to whole minutes (truncating).
MinutesSinceLastModified(m, t) == (t - m.mtime) \div TicksPerMinute

\* Variant of IsStale with a strict comparison.
IsStaleStrict(m, t) == MinutesSinceLastModified(m, t) > StaleMinutes

\* imageutil.cpp:205
IsStale(m, t) == MinutesSinceLastModified(m, t) >= StaleMinutes

Running == proc = "running"
InAcquire == {"CLF_lock", "CLF_check", "CLF_create", "CLF_ret"}

\* Variant of MutexAvailable without the exclusion: a body that does not
\* take io_mutex.
MutexIgnored(t) == TRUE

\* std::lock_guard<std::mutex> lock(io_mutex): the caller proceeds only when
\* no thread holds the mutex.
MutexAvailable(t) == io_mutex = Free


(***************************************************************************)
(* CreateLockFile, imageutil.cpp:179-222.  The body runs under io_mutex    *)
(* in two steps: the inspection of an existing marker (185-210) and the    *)
(* creation of the marker (212-220).  A call ends with ret[t] set to       *)
(* "true", "false" or "throw" and the mutex released (lock_guard).         *)
(***************************************************************************)

\* Variant of InspectMarker without the test of the marker's age: every
\* marker found is reclaimed.
InspectMarkerAnyAge(m, t, inspectOk, rm) ==
    IF ~Exists(m) THEN [go |-> "create", why |-> "absent", marker |-> m]
    ELSE IF ~inspectOk THEN [go |-> "throw", why |-> "inspect_error", marker |-> m]
    ELSE CASE rm = "removed" -> [go |-> "create", why |-> "stale", marker |-> NoMarker]
           [] rm = "remains" -> [go |-> "create", why |-> "stale", marker |-> m]
           [] rm = "error"   -> [go |-> "throw", why |-> "remove_error", marker |-> m]

\* imageutil.cpp:185-210.  m is the marker found, inspectOk tells whether
\* last_write_time succeeded, rm what remove() did to a stale marker.
\* The result says how the body goes on and what is left of the marker.
InspectMarker(m, t, inspectOk, rm) ==
    IF ~Exists(m) THEN [go |-> "create", why |-> "absent", marker |-> m]
    ELSE IF ~inspectOk THEN [go |-> "throw", why |-> "inspect_error", marker |-> m]
    ELSE IF IsStale(m, t) THEN
        CASE rm = "removed" -> [go |-> "create", why |-> "stale", marker |-> NoMarker]
          [] rm = "remains" -> [go |-> "create", why |-> "stale", marker |-> m]
          [] rm = "error"   -> [go |-> "throw", why |-> "remove_error", marker |-> m]
    ELSE [go |-> "false", why |-> "busy", marker |-> m]

\* imageutil.cpp:212-220.  std::wofstream(lockPath, out | trunc): when the
\* file opens it is (re)written now by `who`; otherwise the call returns false.
OpenMarker(m, t, who, openOk) ==
    IF openOk THEN [ret |-> "true", marker |-> [mtime |-> t, creator |-> who]]
    ELSE [ret |-> "false", marker |-> m]

CLF_Lock(t) ==
    /\ Running /\ pc[t] = "CLF_lock"
    /\ MutexAvailable(t)
    /\ io_mutex' = t
    /\ pc' = [pc EXCEPT ![t] = "CLF_check"]
    /\ UNCHANGED <<now, marker, path, ret, why, histVars, nonLockVars>>

CLF_Check(t) ==
    /\ Running /\ pc[t] = "CLF_check"
    /\ \E inspectOk \in BOOLEAN, rm \in FsRemoveOutcomes :
         LET p == path[t]
             r == InspectMarker(marker[p], now, inspectOk, rm)
         IN  /\ marker' = [marker EXCEPT ![p] = r.marker]
             /\ why' = [why EXCEPT ![t] = r.why]
             /\ IF r.go = "create"
                   THEN /\ pc' = [pc EXCEPT ![t] = "CLF_create"]
                        /\ UNCHANGED <<ret, io_mutex>>
                   ELSE /\ pc' = [pc EXCEPT ![t] = "CLF_ret"]
                        /\ ret' = [ret EXCEPT ![t] = r.go]
                        /\ io_mutex' = Free
    /\ UNCHANGED <<now, path, histVars, nonLockVars>>

CLF_Create(t) ==
    /\ Running /\ pc[t] = "CLF_create"
    /\ \E openOk \in BOOLEAN :
         LET p == path[t]
             r == OpenMarker(marker[p], now, t, openOk)
         IN  /\ marker' = [marker EXCEPT ![p] = r.marker]
             /\ ret' = [ret EXCEPT ![t] = r.ret]
             /\ why' = [why EXCEPT ![t] = IF openOk THEN why[t] ELSE "open_error"]
             /\ grantLog' = IF r.ret = "true"
                               THEN [grantLog EXCEPT ![p] = Append(@, [by |-> t, time |-> now])]
                               ELSE grantLog
    /\ pc' = [pc EXCEPT ![t] = "CLF_ret"]
    /\ io_mutex' = Free
    /\ UNCHANGED <<now, path, cFresh, nonLockVars>>

(***************************************************************************)
(* RemoveLockFile, imageutil.cpp:166-177.                                  *)
(***************************************************************************)

\* imageutil.cpp:170-175: remove(lockPath), then exists(lockPath).
\* remove() of a path that does not exist reports nothing and returns false.
RemoveMarker(m, rm) ==
    IF ~Exists(m) THEN [ret |-> "true", marker |-> m]
    ELSE CASE rm = "removed" -> [ret |-> "true", marker |-> NoMarker]
           [] rm = "remains" -> [ret |-> "false", marker |-> m]
           [] rm = "error"   -> [ret |-> "throw", marker |-> m]

RLF_Lock(t) ==
    /\ Running /\ pc[t] = "RLF_lock"
    /\ MutexAvailable(t)
    /\ io_mutex' = t
    /\ pc' = [pc EXCEPT ![t] = "RLF_body"]
    /\ UNCHANGED <<now, marker, path, ret, why, histVars, nonLockVars>>

RLF_Body(t) ==
    /\ Running /\ pc[t] = "RLF_body"
    /\ \E rm \in FsRemoveOutcomes :
         LET p == path[t]
             r == RemoveMarker(marker[p], rm)
         IN  /\ marker' = [marker EXCEPT ![p] = r.marker]
             /\ ret' = [ret EXCEPT ![t] = r.ret]
             /\ why' = [why EXCEPT ![t] = "release"]
             /\ grantLog' = [grantLog EXCEPT ![p] = << >>]
             /\ cFresh' = [u \in AllThreads |-> cFresh[u] /\ ~(path[u] = p /\ pc[u] \in InAcquire)]
    /\ pc' = [pc EXCEPT ![t] = "RLF_ret"]
    /\ io_mutex' = Free
    /\ UNCHANGED <<now, path, nonLockVars>>

\* The clock advances.
Tick ==
    /\ \E later \in (StaleTicks - 1)..MaxTime : later > now /\ now' = later
    /\ UNCHANGED <<marker, io_mutex, pc, path, ret, why, histVars, nonLockVars>>

LockStep(t) == CLF_Lock(t) \/ CLF_Check(t) \/ CLF_Create(t) \/ RLF_Lock(t) \/ RLF_Body(t)

(***************************************************************************)
(* ConvertSequence, imageutil.cpp:556-713.                                 *)
(***************************************************************************)
\* Output stems and extensions of the requests, as character sequences.
Stems == {<<"a", "_">>}
Exts == {<< >>, <<".", "j">>}
ThreadHints == {-1, 0, 2}
HwHints == {0, 1}

\* imageutil.cpp:620  regex_replace(stem, L"[-_\\.\\s]*$", L"")
RECURSIVE StripTrailing(_)
StripTrailing(str) ==
    IF str # << >> /\ str[Len(str)] \in {"-", "_", ".", " "}
    THEN StripTrailing(SubSeq(str, 1, Len(str) - 1))
    ELSE str

Digit(d) == <<"0", "1", "2", "3", "4", "5", "6", "7", "8", "9">>[d + 1]

\* std::to_wstring(index) of a non-negative int
RECURSIVE ToWString(_)
ToWString(n) == IF n < 10 THEN <<Digit(n)>> ELSE ToWString(n \div 10) \o <<Digit(n % 10)>>

\* imageutil.cpp:626-627  output_base_name + L"." + std::to_wstring(index) + output_extension
OutputName(stem, index, ext) == StripTrailing(stem) \o <<".">> \o ToWString(index) \o ext

\* imageutil.cpp:551-554 and 602: the std::wregex built from the file name
\* (regex_error) and the directory_iterator (filesystem_error) can throw;
\* nothing in ConvertSequence catches.
SetupThrows(in) ==
    in.ext # << >> /\ in.inDirOk /\ in.outDirOk /\ in.isSeq /\ in.fault

\* Variant of SetupResult that goes on when no file matched.
SetupResultAnyListing(in) ==
    IF in.ext = << >> THEN 1
    ELSE IF ~in.inDirOk THEN 1
    ELSE IF ~in.outDirOk THEN 1
    ELSE IF ~in.isSeq THEN 1
    ELSE 0

\* imageutil.cpp:569-617: 1 when setup fails, 0 when it finds the inputs.
SetupResult(in) ==
    IF in.ext = << >> THEN 1
    ELSE IF ~in.inDirOk THEN 1
    ELSE IF ~in.outDirOk THEN 1
    ELSE IF ~in.isSeq THEN 1
    ELSE IF in.dir = << >> THEN 1
    ELSE 0

\* imageutil.cpp:658-661.  static_cast<size_t>(threads) of a negative hint is
\* larger than any inputs.size().
ActualThreads(threads, hw, n) ==
    LET th == IF threads = 0 THEN hw ELSE threads
    IN  IF th < 0 \/ th > n THEN n ELSE th

\* imageutil.cpp:664-671: the chunk [ChunkStart, ChunkEnd) of worker k = 0 .. w-1
RECURSIVE ChunkEnd(_, _, _)
\* Variant of ChunkStart: every chunk starts at the first input.
ChunkStartFirst(k, n, w) == 0
ChunkStart(k, n, w) == IF k = 0 THEN 0 ELSE ChunkEnd(k - 1, n, w)
ChunkEnd(k, n, w) == ChunkStart(k, n, w) + (n \div w) + (IF k < n % w THEN 1 ELSE 0)

\* Of an item: the result of CreateLockFile, the outcome of ConvertImage, the
\* number of RemoveLockFile calls made after them and the result of the last,
\* and whether WriteError reported the item.
NoItem == [acq |-> "none", conv |-> "none", rel |-> 0, relRet |-> "none", log |-> FALSE]
Indices == 0..(MaxInputs - 1)
N == Len(inputs)

NoImage == [w |-> 0, h |-> 0, levels |-> 0]
NoSpec == [w |-> 0, h |-> 0]

\* An ImageSpec without extra attributes (attribute name -> value)
NoAttrs == [n \in {} |-> ""]

\* ConvertInputToRegex not called
RegexIdle ==
    /\ fileName = << >>
    /\ entryName = << >>
    /\ fileNameRe = [state |-> "unset", src |-> << >>]
    /\ matched = "unset"

ImageIdle ==
    /\ img = NoImage
    /\ sizeArg = 0
    /\ size = 0
    /\ ipc = "none"
    /\ miplevel = 0
    /\ best = -1
    /\ largest = NoSpec
    /\ bufSpec = NoSpec
    /\ outSize = NoSpec
    /\ result = [how |-> "none", w |-> 0, h |-> 0]
    /\ chans = << >>
    /\ channel_indices = << >>
    /\ fileSize = [hi |-> 0, lo |-> 0]
    /\ outAttrs = NoAttrs
    /\ wrOk = FALSE
    /\ outFile = "absent"
    /\ deep = FALSE
    /\ srcAttrs = NoAttrs
    /\ stageLog = {}
    /\ invalidated = {}
    /\ cret = "none"

NoRequest == [ext |-> << >>, stem |-> << >>, inDirOk |-> FALSE, outDirOk |-> FALSE,
              isSeq |-> FALSE, fault |-> FALSE, dir |-> << >>, threads |-> 0, hw |-> 0]

SeqIdle ==
    /\ seqPc = "none"
    /\ seqIn = NoRequest
    /\ inputs = << >>
    /\ seqRet = -1
    /\ wStart = [t \in AllThreads |-> 0]
    /\ wEnd = [t \in AllThreads |-> 0]
    /\ wIndex = [t \in AllThreads |-> 0]
    /\ wConv = [t \in AllThreads |-> 0]
    /\ wSite = [t \in AllThreads |-> "none"]
    /\ att = [i \in Indices |-> 0]
    /\ cur = [t \in AllThreads |-> NoItem]
    /\ written = {}
    /\ relFailed = {}
    /\ argv = << >>
    /\ exitCode = -1
    /\ ImageIdle
    /\ RegexIdle

\* imageutil.cpp:556-617: validation, pattern, discovery.
SeqSetup ==
    /\ Running /\ entry = "sequence" /\ seqPc = "call"
    /\ MutexAvailable(0)
    /\ IF SetupThrows(seqIn)
         THEN /\ seqPc' = "threw"
              /\ UNCHANGED <<inputs, seqRet>>
         ELSE IF SetupResult(seqIn) = 1
         THEN /\ seqRet' = 1
              /\ seqPc' = "returned"
              /\ UNCHANGED inputs
         ELSE /\ inputs' = seqIn.dir
              /\ seqPc' = "partition"
              /\ UNCHANGED seqRet
    /\ UNCHANGED <<lockVars, histVars, proc, entry, seqIn, wStart, wEnd, wIndex, wConv, wSite, att, cur, written, relFailed, mainVars, imgVars, regexVars>>

\* imageutil.cpp:657-671: worker count, chunks, one std::thread per chunk.
\* A worker count of 0 makes inputs.size() / actual_threads a division by
\* zero: the process traps, or the quotient is garbage and no worker starts.
SeqPartition ==
    /\ Running /\ entry = "sequence" /\ seqPc = "partition"
    /\ LET w == ActualThreads(seqIn.threads, seqIn.hw, N)
       IN  IF w = 0
           THEN /\ \/ proc' = "crash_div0" /\ UNCHANGED seqPc
                   \/ seqPc' = "join" /\ UNCHANGED proc
                /\ UNCHANGED <<pc, wStart, wEnd, wIndex>>
           ELSE /\ wStart' = [t \in AllThreads |-> IF t <= w THEN ChunkStart(t - 1, N, w) ELSE 0]
                /\ wEnd' = [t \in AllThreads |-> IF t <= w THEN ChunkEnd(t - 1, N, w) ELSE 0]
                /\ wIndex' = wStart'
                /\ pc' = [t \in AllThreads |-> IF t <= w THEN "w_loop" ELSE "idle"]
                /\ seqPc' = "join"
                /\ UNCHANGED proc
    /\ UNCHANGED <<now, marker, io_mutex, path, ret, why, histVars, entry, seqIn, inputs, seqRet,
                   wConv, wSite, att, cur, written, relFailed, mainVars, imgVars, regexVars>>

\* imageutil.cpp:624-634: loop test, _output, WriteProgress, CreateLockFile(i)
W_Loop(t) ==
    /\ Running /\ entry = "sequence" /\ pc[t] = "w_loop"
    /\ IF wIndex[t] < wEnd[t]
         THEN /\ MutexAvailable(t)
              /\ pc' = [pc EXCEPT ![t] = "CLF_lock"]
              /\ path' = [path EXCEPT ![t] = inputs[wIndex[t] + 1]]
              /\ att' = [att EXCEPT ![wIndex[t]] = @ + 1]
              /\ cur' = [cur EXCEPT ![t] = NoItem]
              /\ written' = written \cup {[by |-> t, index |-> wIndex[t],
                                            out |-> OutputName(seqIn.stem, wIndex[t], seqIn.ext)]}
         ELSE /\ pc' = [pc EXCEPT ![t] = "w_done"]
              /\ cur' = [cur EXCEPT ![t] = NoItem]
              /\ UNCHANGED <<path, att, written>>
    /\ UNCHANGED <<now, marker, io_mutex, ret, why, histVars, proc, entry, seqPc, seqIn, inputs,
                   seqRet, wStart, wEnd, wIndex, wConv, wSite, relFailed, mainVars, imgVars, regexVars>>

\* Variant of AfterAcquire that treats a busy lock like a thrown fault.
AfterAcquireRelease(r) ==
    CASE r = "true"  -> "w_convert"
      [] r = "false" -> "w_catch"
      [] r = "throw" -> "w_catch"

\* imageutil.cpp:634-637 and 649: what follows the return of CreateLockFile
AfterAcquire(r) ==
    CASE r = "true"  -> "w_convert"
      [] r = "false" -> "w_next"
      [] r = "throw" -> "w_catch"

W_Acquired(t) ==
    /\ Running /\ entry = "sequence" /\ pc[t] = "CLF_ret"
    /\ LET go == AfterAcquire(ret[t])
           i == wIndex[t]
       IN  /\ go = "w_next" => MutexAvailable(t)
           /\ pc' = [pc EXCEPT ![t] = IF go = "w_next" THEN "w_loop" ELSE go]
           /\ wIndex' = [wIndex EXCEPT ![t] = IF go = "w_next" THEN @ + 1 ELSE @]
           /\ cur' = [cur EXCEPT ![t].acq = ret[t],
                                  ![t].log = @ \/ go = "w_next"]
    /\ ret' = [ret EXCEPT ![t] = "none"]
    /\ why' = [why EXCEPT ![t] = "none"]
    /\ UNCHANGED <<now, marker, io_mutex, path, histVars, proc, entry, seqPc, seqIn, inputs,
                   seqRet, wStart, wEnd, wConv, wSite, att, written, relFailed, mainVars, imgVars, regexVars>>

\* What a call of ConvertImage (imageutil.cpp:248-512) can do to its caller:
\* return 0, return 1, throw a std::exception, or end the process (the
\* dereference of a null ImageInput at 253-254).
ConvertOutcomes == {"ok", "fail", "throw", "crash"}

\* Variant of AfterConvert that goes on to the next item when ConvertImage
\* returned an error.
AfterConvertSkipRelease(o) ==
    CASE o = "ok" -> "RLF_lock"
      [] o = "fail" -> "w_next"
      [] o = "throw" -> "w_catch"
      [] o = "crash" -> "dead"

\* imageutil.cpp:639-643 and 649: what follows ConvertImage
AfterConvert(o) ==
    CASE o \in {"ok", "fail"} -> "RLF_lock"
      [] o = "throw" -> "w_catch"
      [] o = "crash" -> "dead"

\* imageutil.cpp:639-643: ConvertImage(i, _output, size, 1, false),
\* WriteProgress, RemoveLockFile(i)
W_Convert(t) ==
    /\ Running /\ entry = "sequence" /\ pc[t] = "w_convert"
    /\ MutexAvailable(t)
    /\ \E o \in ConvertOutcomes :
         LET go == AfterConvert(o)
             i == wIndex[t]
         IN  /\ cur' = [cur EXCEPT ![t].conv = o]
             /\ wConv' = [wConv EXCEPT ![t] = IF o = "fail" THEN 1 ELSE 0]
             /\ IF go = "dead"
                  THEN proc' = "crash_convert" /\ UNCHANGED <<pc, wSite, wIndex>>
                  ELSE /\ pc' = [pc EXCEPT ![t] = IF go = "w_next" THEN "w_loop" ELSE go]
                       /\ wIndex' = [wIndex EXCEPT ![t] = IF go = "w_next" THEN @ + 1 ELSE @]
                       /\ wSite' = [wSite EXCEPT ![t] = "try"]
                       /\ UNCHANGED proc
    /\ UNCHANGED <<now, marker, io_mutex, path, ret, why, histVars, entry, seqPc, seqIn, inputs,
                   seqRet, wStart, wEnd, att, written, relFailed, mainVars, imgVars, regexVars>>

\* imageutil.cpp:649-653: catch (const std::exception &), WriteError, RemoveLockFile(i)
W_Catch(t) ==
    /\ Running /\ entry = "sequence" /\ pc[t] = "w_catch"
    /\ MutexAvailable(t)
    /\ pc' = [pc EXCEPT ![t] = "RLF_lock"]
    /\ wSite' = [wSite EXCEPT ![t] = "catch"]
    /\ cur' = [cur EXCEPT ![t].log = TRUE]
    /\ UNCHANGED <<now, marker, io_mutex, path, ret, why, histVars, proc, entry, seqPc, seqIn,
                   inputs, seqRet, wStart, wEnd, wIndex, wConv, att, written, relFailed, mainVars, imgVars, regexVars>>

\* What follows the return of RemoveLockFile: at 643 its result is dropped
\* and a throw lands in the catch block; at 652, inside the catch block, a
\* throw leaves the thread function and std::terminate ends the process.
AfterRelease(site, r) ==
    IF r = "throw" THEN (IF site = "try" THEN "w_catch" ELSE "dead")
    ELSE "w_next"

\* imageutil.cpp:643-648 and 652-654
W_Released(t) ==
    /\ Running /\ entry = "sequence" /\ pc[t] = "RLF_ret"
    /\ LET go == AfterRelease(wSite[t], ret[t])
           i == wIndex[t]
           err == go = "w_next" /\ wSite[t] = "try" /\ wConv[t] # 0
       IN  /\ err => MutexAvailable(t)
           /\ cur' = [cur EXCEPT ![t].rel = @ + 1, ![t].relRet = ret[t],
                                  ![t].log = @ \/ err]
           /\ relFailed' = IF ret[t] = "false" THEN relFailed \cup {path[t]}
                                               ELSE relFailed \ {path[t]}
           /\ IF go = "dead"
                THEN proc' = "terminate" /\ UNCHANGED <<pc, wIndex>>
                ELSE /\ pc' = [pc EXCEPT ![t] = IF go = "w_next" THEN "w_loop" ELSE go]
                     /\ wIndex' = [wIndex EXCEPT ![t] = IF go = "w_next" THEN @ + 1 ELSE @]
                     /\ UNCHANGED proc
    /\ ret' = [ret EXCEPT ![t] = "none"]
    /\ why' = [why EXCEPT ![t] = "none"]
    /\ UNCHANGED <<now, marker, io_mutex, path, histVars, entry, seqPc, seqIn, inputs,
                   seqRet, wStart, wEnd, wConv, wSite, att, written, mainVars, imgVars, regexVars>>

\* Variant of Joined that does not wait for the worker.
JoinedAtOnce(t) == TRUE

\* worker.join() returns once the worker's thread function has returned
Joined(t) == pc[t] \in {"idle", "w_done"}

\* imageutil.cpp:673-712: join every worker, WriteProgress, return 0
SeqJoin ==
    /\ Running /\ entry = "sequence" /\ seqPc = "join"
    /\ \A t \in AllThreads : Joined(t)
    /\ MutexAvailable(0)
    /\ seqRet' = 0
    /\ seqPc' = "returned"
    /\ UNCHANGED <<lockVars, histVars, proc, entry, seqIn, inputs, wStart, wEnd, wIndex, wConv,
                   wSite, att, cur, written, relFailed, mainVars, imgVars, regexVars>>

(***************************************************************************)
(* wmain, imageutil.cpp:715-791, run by thread 1.                          *)
(***************************************************************************)
MaxArgs == 6

\* Pieces of a command line: an option with a value, an option the parser
\* does not know, an option without its value, a stray value.
ArgGroups ==
    {<<"-i", "f">>, <<"-o", "f">>, <<"-s", "7">>, <<"-s", "f">>, <<"-x">>, <<"-i">>, <<"f">>}
MainThread == 1

\* imageutil.cpp:728-737: the names of the arguments; every one of them
\* takes a value (requiresValue), input and output are required and have no
\* default.
Alias(tok) ==
    CASE tok = "-i" -> "input"
      [] tok = "-o" -> "output"
      [] tok = "-s" -> "size"
      [] OTHER -> "unknown"
Required == {"input", "output"}
StartsWithDash(tok) == tok \in {"-i", "-o", "-s", "-x"}

\* imageutil.cpp:57-66  initializeDefaults: parsedArgs before parse (threads
\* and verbose, also "0", are left out)
Defaults == "size" :> "0"

\* imageutil.cpp:111-124  get<int>: whether wiss >> value succeeds
ReadsAsInt(val) == val \in {"0", "7"}

\* imageutil.cpp:78-109  CommandLineParser::parse: parsedArgs (given), and
\* whether parse returned (ok) or threw.
RECURSIVE ParseFrom(_, _, _)
ParseFrom(args, i, parsed) ==
    IF i > Len(args)
    THEN [ok |-> Required \subseteq DOMAIN parsed, given |-> parsed]
    ELSE IF Alias(args[i]) = "unknown" THEN [ok |-> FALSE, given |-> parsed]
    ELSE IF i + 1 <= Len(args) /\ ~StartsWithDash(args[i + 1])
         THEN ParseFrom(args, i + 2, (Alias(args[i]) :> args[i + 1]) @@ parsed)
         ELSE [ok |-> FALSE, given |-> parsed]

Parse(args) == ParseFrom(args, 1, Defaults)

\* imageutil.cpp:740-783: parse, the help of an empty command line, the
\* arguments (get<int> of the size stands outside any try block: a throw
\* ends the process), CreateCache, CreateLockFile(input)
M_Parse ==
    /\ Running /\ entry = "main" /\ pc[MainThread] = "m_parse"
    /\ ~Parse(argv).ok => MutexAvailable(MainThread)
    /\ IF ~Parse(argv).ok
         THEN /\ exitCode' = 1
              /\ pc' = [pc EXCEPT ![MainThread] = "m_exit"]
              /\ UNCHANGED proc
         ELSE IF Len(argv) + 1 <= 1
         THEN /\ exitCode' = 0
              /\ pc' = [pc EXCEPT ![MainThread] = "m_exit"]
              /\ UNCHANGED proc
         ELSE IF ~ReadsAsInt(Parse(argv).given["size"])
         THEN /\ proc' = "terminate"
              /\ UNCHANGED <<pc, exitCode>>
         ELSE /\ pc' = [pc EXCEPT ![MainThread] = "CLF_lock"]
              /\ UNCHANGED <<exitCode, proc>>
    /\ UNCHANGED <<now, marker, io_mutex, path, ret, why, histVars, seqVars, argv, imgVars, regexVars>>

\* imageutil.cpp:780-788: what follows the return of CreateLockFile
MainAfterAcquire(r) ==
    CASE r = "true"  -> "m_convert"
      [] r = "false" -> "m_exit"
      [] r = "throw" -> "RLF_lock"

M_Acquired ==
    /\ Running /\ entry = "main" /\ pc[MainThread] = "CLF_ret"
    /\ LET go == MainAfterAcquire(ret[MainThread])
       IN  /\ go # "m_convert" => MutexAvailable(MainThread)
           /\ pc' = [pc EXCEPT ![MainThread] = go]
           /\ exitCode' = IF go = "m_exit" THEN 1 ELSE exitCode
           /\ wConv' = [wConv EXCEPT ![MainThread] = IF go = "RLF_lock" THEN 1 ELSE @]
           /\ cur' = [cur EXCEPT ![MainThread].acq = ret[MainThread],
                                  ![MainThread].log = go # "m_convert"]
    /\ ret' = [ret EXCEPT ![MainThread] = "none"]
    /\ why' = [why EXCEPT ![MainThread] = "none"]
    /\ UNCHANGED <<now, marker, io_mutex, path, histVars, proc, entry, seqPc, seqIn, inputs,
                   seqRet, wStart, wEnd, wIndex, wSite, att, written, relFailed, argv, imgVars, regexVars>>

\* imageutil.cpp:784-789: what follows ConvertImage
MainAfterConvert(o) ==
    CASE o \in {"ok", "fail", "throw"} -> "RLF_lock"
      [] o = "crash" -> "dead"

\* imageutil.cpp:784-788: r = ConvertImage(...), or r = 1 in the catch block
M_Convert ==
    /\ Running /\ entry = "main" /\ pc[MainThread] = "m_convert"
    /\ MutexAvailable(MainThread)
    /\ \E o \in ConvertOutcomes :
         LET go == MainAfterConvert(o)
         IN  /\ cur' = [cur EXCEPT ![MainThread].conv = o,
                                    ![MainThread].log = o = "throw"]
             /\ wConv' = [wConv EXCEPT ![MainThread] = IF o = "ok" THEN 0 ELSE 1]
             /\ IF go = "dead"
                  THEN proc' = "crash_convert" /\ UNCHANGED pc
                  ELSE pc' = [pc EXCEPT ![MainThread] = go] /\ UNCHANGED proc
    /\ UNCHANGED <<now, marker, io_mutex, path, ret, why, histVars, entry, seqPc, seqIn, inputs,
                   seqRet, wStart, wEnd, wIndex, wSite, att, written, relFailed, mainVars, imgVars, regexVars>>

\* imageutil.cpp:789-790: RemoveLockFile(input) stands outside the try
\* block, so a throw ends the process; otherwise return r.
M_Released ==
    /\ Running /\ entry = "main" /\ pc[MainThread] = "RLF_ret"
    /\ cur' = [cur EXCEPT ![MainThread].rel = @ + 1, ![MainThread].relRet = ret[MainThread]]
    /\ relFailed' = IF ret[MainThread] = "false" THEN relFailed \cup {path[MainThread]}
                                             ELSE relFailed \ {path[MainThread]}
    /\ IF ret[MainThread] = "throw"
         THEN proc' = "terminate" /\ UNCHANGED <<pc, exitCode>>
         ELSE /\ pc' = [pc EXCEPT ![MainThread] = "m_exit"]
              /\ exitCode' = wConv[MainThread]
              /\ UNCHANGED proc
    /\ ret' = [ret EXCEPT ![MainThread] = "none"]
    /\ why' = [why EXCEPT ![MainThread] = "none"]
    /\ UNCHANGED <<now, marker, io_mutex, path, histVars, entry, seqPc, seqIn, inputs,
                   seqRet, wStart, wEnd, wIndex, wConv, wSite, att, written, argv, imgVars, regexVars>>

(***************************************************************************)
(* ConvertImage, imageutil.cpp:248-512: the choice of the mip level and    *)
(* the size of the output.                                                 *)
(***************************************************************************)
MaxDim == 5
MaxLevels == 3
MaxSize == 4

RECURSIVE Pow2(_)
Pow2(k) == IF k = 0 THEN 1 ELSE 2 * Pow2(k - 1)

\* IEEE 754 binary32, positive values: [m, e] is m * 2^e with
\* 2^23 <= m < 2^24.  Round P * 2^e (P > 0; sticky: some lower bits of the
\* exact value were dropped from P) to nearest, ties to even.
MantissaBits == 24
RECURSIVE RoundF32(_, _, _)
RoundF32(P, e, sticky) ==
    IF P < Pow2(MantissaBits - 1) THEN RoundF32(2 * P, e - 1, sticky)
    ELSE IF P < Pow2(MantissaBits) THEN [m |-> P, e |-> e]
    ELSE LET k == CHOOSE j \in 1..7 : P \div Pow2(j) \in Pow2(MantissaBits - 1)..(Pow2(MantissaBits) - 1)
             low == P % Pow2(k)
             half == Pow2(k - 1)
             m0 == P \div Pow2(k)
             up == low > half \/ (low = half /\ (sticky \/ m0 % 2 = 1))
             m1 == IF up THEN m0 + 1 ELSE m0
         IN  IF m1 = Pow2(MantissaBits) THEN [m |-> Pow2(MantissaBits - 1), e |-> e + k + 1]
             ELSE [m |-> m1, e |-> e + k]

\* (float) n of a small positive int
F32FromInt(n) == RoundF32(n, 0, FALSE)

\* The quotient bits of rem / d, one at a time: [q, rem] after `bits` more bits
RECURSIVE LongDiv(_, _, _, _)
LongDiv(q, rem, d, bits) ==
    IF bits = 0 THEN [q |-> q, rem |-> rem]
    ELSE IF 2 * rem >= d THEN LongDiv(2 * q + 1, 2 * rem - d, d, bits - 1)
    ELSE LongDiv(2 * q, 2 * rem, d, bits - 1)

\* a / b in binary32
F32Div(a, b) ==
    LET r == LongDiv(a.m \div b.m, a.m % b.m, b.m, MantissaBits + 1)
    IN  RoundF32(r.q, a.e - b.e - (MantissaBits + 1), r.rem # 0)

\* (float) n * b in binary32, n a small positive int
F32MulInt(n, b) == RoundF32(n * b.m, b.e, FALSE)

\* (int) f: truncation
F32ToInt(f) == IF f.e >= 0 THEN f.m * Pow2(f.e) ELSE f.m \div Pow2(0 - f.e)

Max(a, b) == IF a > b THEN a ELSE b
Min(a, b) == IF a < b THEN a ELSE b

\* The size of mip level k of a source whose level 0 is w x h: each level
\* halves the one before, rounding down, and no edge goes below 1.
RECURSIVE MipSpec(_, _, _)
MipSpec(w, h, k) ==
    IF k = 0 THEN [w |-> w, h |-> h]
    ELSE LET up == MipSpec(w, h, k - 1)
         IN  [w |-> Max(1, up.w \div 2), h |-> Max(1, up.h \div 2)]

\* What opening the source can come to (imageutil.cpp:252-277): a reader,
\* a file the reader rejects (valid_file false, or has_error), or no reader
\* at all (ImageInput::create or ImageInput::open returns null).
OpenOutcomes == {"ok", "invalid", "null"}

\* imageutil.cpp:252-285: create, valid_file, open; spec = in->spec();
\* if (size == 0) size = max(width, height).  With a null reader the error
\* branch calls _in->close() on it: undefined behaviour, the process ends
\* there or the branch runs on to return 1.
I_Open ==
    /\ ipc = "open"
    /\ \E o \in OpenOutcomes :
         CASE o = "ok" ->
                /\ size' = IF size = 0 THEN Max(img.w, img.h) ELSE size
                /\ ipc' = "seek"
                /\ UNCHANGED cret
           [] o = "invalid" ->
                /\ cret' = "ret1" /\ ipc' = "done"
                /\ UNCHANGED size
           [] o = "null" ->
                /\ cret' \in {"crash", "ret1"} /\ ipc' = "done"
                /\ UNCHANGED size
    /\ UNCHANGED <<lockVars, histVars, proc, seqVars, mainVars, regexVars, invalidated, deep, srcAttrs, stageLog, img, sizeArg, miplevel, best,
                   largest, bufSpec, outSize, result, chans, channel_indices, fileSize,
                   outAttrs, wrOk, outFile>>

\* imageutil.cpp:304  the test that makes a level the best match
BetterMatch(spec, b, l) == b = -1 \/ (spec.w < l.w /\ spec.h < l.h)

\* imageutil.cpp:300-312: one turn of the loop over the mip levels; `spec`
\* refers to in->spec() and so to the level seek_subimage moved to.
I_Seek ==
    /\ ipc = "seek"
    /\ miplevel < img.levels
    /\ LET spec == MipSpec(img.w, img.h, miplevel)
       IN  IF spec.w >= size /\ spec.h >= size /\ BetterMatch(spec, best, largest)
           THEN best' = miplevel /\ largest' = spec
           ELSE UNCHANGED <<best, largest>>
    /\ miplevel' = miplevel + 1
    /\ UNCHANGED <<lockVars, histVars, proc, seqVars, mainVars, regexVars, invalidated, deep, srcAttrs, stageLog, img, sizeArg, size, ipc,
                   bufSpec, outSize, result, chans, channel_indices, fileSize, outAttrs,
                   wrOk, outFile, cret>>

\* imageutil.cpp:300 and 314-351: seek_subimage fails, the loop ends; without
\* a match level 0 is used; buf_ reads the level (has_error: return 1).
I_Read ==
    /\ ipc = "seek"
    /\ miplevel >= img.levels
    /\ best' = IF best # -1 THEN best ELSE 0
    /\ \E readOk \in BOOLEAN :
         IF readOk
         THEN /\ bufSpec' = MipSpec(img.w, img.h, best')
              /\ ipc' = "channels"
              /\ UNCHANGED cret
         ELSE /\ cret' = "ret1" /\ ipc' = "done"
              /\ UNCHANGED bufSpec
    /\ UNCHANGED <<lockVars, histVars, proc, seqVars, mainVars, regexVars, invalidated, deep, srcAttrs, stageLog, img, sizeArg, size, miplevel,
                   largest, outSize, result, chans, channel_indices, fileSize, outAttrs,
                   wrOk, outFile>>

\* imageutil.cpp:354  channel_indices = {0, 0, 0, -1}
DefaultIndices == <<0, 0, 0, -1>>

\* imageutil.cpp:355  fill_values, as written in the source
fill_values == <<"0.3f", "0.3f", "0.3f", "1.0f">>

\* imageutil.cpp:358-372  the body of the loop for channel i (from 0) named nm
ScanChannel(ci, i, nm) ==
    LET c0 == IF nm = "R" \/ nm = "Y" THEN [ci EXCEPT ![1] = i] ELSE ci
        c1 == IF nm = "G" THEN [c0 EXCEPT ![2] = i] ELSE c0
        c2 == IF nm = "B" THEN [c1 EXCEPT ![3] = i] ELSE c1
    IN  IF nm = "A" THEN [c2 EXCEPT ![4] = i] ELSE c2

\* imageutil.cpp:357-373  for (i = 0; i < spec.nchannels; i++): the indices
\* after the first k channels
RECURSIVE ScanChannels(_, _)
ScanChannels(names, k) ==
    IF k = 0 THEN DefaultIndices
    ELSE ScanChannel(ScanChannels(names, k - 1), k - 1, names[k])

\* imageutil.cpp:353-388: the scan, then ImageBufAlgo::channels (failure:
\* return 1)
I_Channels ==
    /\ ipc = "channels"
    /\ channel_indices' = ScanChannels(chans, Len(chans))
    /\ \E shuffleOk \in BOOLEAN :
         IF shuffleOk
         THEN ipc' = "flatten" /\ UNCHANGED cret
         ELSE cret' = "ret1" /\ ipc' = "done"
    /\ UNCHANGED <<lockVars, histVars, proc, seqVars, mainVars, regexVars, invalidated, deep, srcAttrs, stageLog, img, sizeArg, size, miplevel,
                   best, largest, bufSpec, outSize, result, chans, fileSize, outAttrs, wrOk,
                   outFile>>

\* Variant of AfterStageFailure that returns 1 from the failed stage.
ReturnAfterStageFailure(next) == [ipc |-> "done", cret |-> "ret1"]

\* imageutil.cpp:397-400 and 480-483: the failure branch of flatten and of
\* colorconvert has WriteError only, no return: the stage `next` follows.
AfterStageFailure(next) == [ipc |-> next, cret |-> "none"]

\* imageutil.cpp:393-401: if (spec_.deep) ImageBufAlgo::flatten; a failure
\* is reported and the conversion goes on.
I_Flatten ==
    /\ ipc = "flatten"
    /\ IF deep
       THEN \E flattenOk \in BOOLEAN :
              IF flattenOk
              THEN ipc' = "size" /\ UNCHANGED <<stageLog, cret>>
              ELSE /\ stageLog' = stageLog \cup {"flatten"}
                   /\ ipc' = AfterStageFailure("size").ipc
                   /\ cret' = AfterStageFailure("size").cret
       ELSE ipc' = "size" /\ UNCHANGED <<stageLog, cret>>
    /\ UNCHANGED <<lockVars, histVars, proc, seqVars, mainVars, regexVars, invalidated, deep,
                   srcAttrs, img, sizeArg, size, miplevel, best, largest, bufSpec, outSize,
                   result, chans, channel_indices, fileSize, outAttrs, wrOk, outFile>>

\* imageutil.cpp:423-429
EvenUp(n) == IF n % 2 # 0 THEN n + 1 ELSE n

\* imageutil.cpp:407-421
OutputSize(spec, sz) ==
    IF sz = -1 THEN spec
    ELSE LET aspect == F32Div(F32FromInt(Max(spec.w, spec.h)), F32FromInt(Min(spec.w, spec.h)))
         IN  IF spec.w > spec.h
             THEN [w |-> sz, h |-> F32ToInt(F32Div(F32FromInt(sz), aspect))]
             ELSE [w |-> F32ToInt(F32MulInt(sz, aspect)), h |-> sz]

\* imageutil.cpp:403-430
I_Size ==
    /\ ipc = "size"
    /\ LET o == OutputSize(bufSpec, size)
       IN  outSize' = [w |-> EvenUp(o.w), h |-> EvenUp(o.h)]
    /\ ipc' = "fill"
    /\ UNCHANGED <<lockVars, histVars, proc, seqVars, mainVars, regexVars, invalidated, deep, srcAttrs, stageLog, img, sizeArg, size, miplevel,
                   best, largest, bufSpec, result, chans, channel_indices, fileSize,
                   outAttrs, wrOk, outFile, cret>>

\* imageutil.cpp:445-450  int _bsize = std::filesystem::file_size(input): the
\* uintmax_t hi * 2^16 + lo converted to a 32 bit int keeps the low 32 bits.
ToInt(fs) ==
    LET h == fs.hi % Pow2(16)
    IN  IF h >= Pow2(15) THEN (h - Pow2(16)) * Pow2(16) + fs.lo ELSE h * Pow2(16) + fs.lo

\* imageutil.cpp:452  std::to_string(_bsize)
IntToString(n) ==
    IF n >= 0 THEN ToWString(n)
    ELSE LET m == 0 - (n + 1)
             high == (m \div 10) + (IF m % 10 = 9 THEN 1 ELSE 0)
             low == ((m % 10) + 1) % 10
         IN  <<"-">> \o (IF high = 0 THEN << >> ELSE ToWString(high)) \o <<Digit(low)>>

\* imageutil.cpp:442-453: the attributes of out_spec: ImageSpec(out_roi,
\* UINT8) has none; these two are set.
OutSpecAttrs(fs) ==
    ("SourceByteSize" :> IntToString(ToInt(fs))) @@ ("oiio:ColorSpace" :> "sRGB")

\* imageutil.cpp:462-471: ImageBufAlgo::fit into out_roi (failure: return 1),
\* or out_buf.copy(buf_), which resets out_buf to buf_.spec(): the
\* attributes of the source replace the ones of out_spec.
I_Fill ==
    /\ ipc = "fill"
    /\ IF size # 0 /\ (outSize.w # bufSpec.w \/ outSize.h # bufSpec.h)
       THEN \E fitOk \in BOOLEAN :
              IF fitOk
              THEN /\ result' = [how |-> "fit", w |-> outSize.w, h |-> outSize.h]
                   /\ outAttrs' = OutSpecAttrs(fileSize)
                   /\ ipc' = "color"
                   /\ UNCHANGED cret
              ELSE /\ cret' = "ret1" /\ ipc' = "done"
                   /\ UNCHANGED <<result, outAttrs>>
       ELSE /\ result' = [how |-> "copy", w |-> bufSpec.w, h |-> bufSpec.h]
            /\ outAttrs' = srcAttrs
            /\ ipc' = "color"
            /\ UNCHANGED cret
    /\ UNCHANGED <<lockVars, histVars, proc, seqVars, mainVars, regexVars, invalidated, deep, srcAttrs, stageLog, img, sizeArg, size, miplevel,
                   best, largest, bufSpec, outSize, chans, channel_indices, fileSize, wrOk,
                   outFile>>

\* imageutil.cpp:474  spec_.get_string_attribute("oiio:ColorSpace", "sRGB")
ColorSpaceOf(attrs) ==
    IF "oiio:ColorSpace" \in DOMAIN attrs THEN attrs["oiio:ColorSpace"] ELSE "sRGB"

\* imageutil.cpp:473-484: ImageBufAlgo::colorconvert of out_buf to "sRGB"
\* when the source names another colour space; it marks the buffer as sRGB
\* when it succeeds, a failure is reported and the conversion goes on.
I_Color ==
    /\ ipc = "color"
    /\ IF ColorSpaceOf(srcAttrs) # "sRGB"
       THEN \E convertOk \in BOOLEAN :
              IF convertOk
              THEN /\ outAttrs' = ("oiio:ColorSpace" :> "sRGB") @@ outAttrs
                   /\ ipc' = "write"
                   /\ UNCHANGED <<stageLog, cret>>
              ELSE /\ stageLog' = stageLog \cup {"colorconvert"}
                   /\ ipc' = AfterStageFailure("write").ipc
                   /\ cret' = AfterStageFailure("write").cret
                   /\ UNCHANGED outAttrs
       ELSE ipc' = "write" /\ UNCHANGED <<stageLog, outAttrs, cret>>
    /\ UNCHANGED <<lockVars, histVars, proc, seqVars, mainVars, regexVars, invalidated, deep,
                   srcAttrs, img, sizeArg, size, miplevel, best, largest, bufSpec, outSize,
                   result, chans, channel_indices, fileSize, wrOk, outFile>>

\* What the output path can be after out_buf.write.
FileStates == {"absent", "empty", "data"}

\* imageutil.cpp:486-489: r = out_buf.write(output_); the file it leaves is
\* the encoder's and the filesystem's doing.
I_Write ==
    /\ ipc = "write"
    /\ wrOk' \in BOOLEAN
    /\ outFile' \in FileStates
    /\ ipc' = "verify"
    /\ UNCHANGED <<lockVars, histVars, proc, seqVars, mainVars, regexVars, invalidated, deep, srcAttrs, stageLog, img, sizeArg, size, miplevel,
                   best, largest, bufSpec, outSize, result, chans, channel_indices, fileSize,
                   outAttrs, cret>>

\* imageutil.cpp:492-511.  exists() and file_size() are the throwing
\* overloads, and so is remove(): statOk = FALSE is a filesystem_error from
\* file_size, rm = "error" one from remove; neither is caught in
\* ConvertImage.
VerifyOutput(file, r, statOk, rm) ==
    IF file = "absent" THEN [ret |-> "ret1", file |-> file]
    ELSE IF ~statOk THEN [ret |-> "throw", file |-> file]
    ELSE IF file = "empty"
         THEN CASE rm = "removed" -> [ret |-> "ret1", file |-> "absent"]
                [] rm = "remains" -> [ret |-> "ret1", file |-> file]
                [] rm = "error"   -> [ret |-> "throw", file |-> file]
    ELSE IF ~r THEN [ret |-> "ret1", file |-> file]
    ELSE [ret |-> "ret0", file |-> file]

I_Verify ==
    /\ ipc = "verify"
    /\ \E statOk \in BOOLEAN, rm \in FsRemoveOutcomes :
         LET v == VerifyOutput(outFile, wrOk, statOk, rm)
         IN  /\ cret' = v.ret
             /\ outFile' = v.file
    /\ ipc' = "done"
    /\ UNCHANGED <<lockVars, histVars, proc, seqVars, mainVars, regexVars, invalidated, deep, srcAttrs, stageLog, img, sizeArg, size, miplevel,
                   best, largest, bufSpec, outSize, result, chans, channel_indices, fileSize,
                   outAttrs, wrOk>>

(***************************************************************************)
(* ConvertInputToRegex, imageutil.cpp:514-554, and the match of a          *)
(* directory entry in ConvertSequence, 602-612.  A file name is a sequence *)
(* of characters and of %0Nd tokens; the expression made of it has (\d{n}) *)
(* as further elements.                                                    *)
(***************************************************************************)
MaxName == 3
MaxEntry == 4

PrintfTokens == {"%01d", "%02d"}
NameChars == {"a", ".", "#"}
EntryChars == {"a", ".", "1"}

\* imageutil.cpp:537  the N captured from %0Nd by (\d{1})
PaddingOf(tok) == IF tok = "%01d" THEN 1 ELSE 2

\* imageutil.cpp:540 and 544  the replacement (\d{n})
DigitGroups == <<"(\\d{1})", "(\\d{2})", "(\\d{3})", "(\\d{4})", "(\\d{5})">>
DigitGroup(n) == DigitGroups[n]

\* imageutil.cpp:531 and 552  path::stem and path::extension of a file name:
\* the extension starts at the last dot unless that dot comes first or the
\* name is ".."
ExtensionStart(name) ==
    LET dots == {k \in 1..Len(name) : name[k] = "."}
        last == CHOOSE k \in dots : \A j \in dots : j <= k
    IN  IF dots = {} \/ last = 1 \/ name = <<".", ".">> THEN Len(name) + 1 ELSE last

Stem(name) == SubSeq(name, 1, ExtensionStart(name) - 1)
Extension(name) == SubSeq(name, ExtensionStart(name), Len(name))

\* imageutil.cpp:535-536 and 542: the length of the first run of '#', the n
\* of match[1].length()
RECURSIVE RunLength(_, _)
RunLength(str, k) == IF k <= Len(str) /\ str[k] = "#" THEN 1 + RunLength(str, k + 1) ELSE 0

FirstRun(str) == RunLength(str, CHOOSE k \in 1..Len(str) : str[k] = "#" /\ \A j \in 1..(k - 1) : str[j] # "#")

\* imageutil.cpp:540  regex_replace of every %0Nd by (\d{N}), the rest of
\* the stem is kept as it is
ReplacePrintf(str) ==
    [k \in 1..Len(str) |-> IF str[k] \in PrintfTokens THEN DigitGroup(PaddingOf(str[k])) ELSE str[k]]

\* imageutil.cpp:544  regex_replace of every n '#' in a row, from the left,
\* by (\d{n})
RECURSIVE ReplaceHash(_, _, _)
ReplaceHash(str, k, n) ==
    IF k > Len(str) THEN << >>
    ELSE IF RunLength(str, k) >= n THEN <<DigitGroup(n)>> \o ReplaceHash(str, k + n, n)
    ELSE <<str[k]>> \o ReplaceHash(str, k + 1, n)

\* imageutil.cpp:514-554  ConvertInputToRegex: std::nullopt, or the
\* expression made of the substituted stem and the extension.  The escaping
\* of 520-529 changes _parent only, which is not read again.
ConvertInputToRegex(name) ==
    LET stem == Stem(name)
    IN  IF \E k \in 1..Len(stem) : stem[k] \in PrintfTokens
        THEN [state |-> "regex", src |-> ReplacePrintf(stem) \o Extension(name)]
        ELSE IF \E k \in 1..Len(stem) : stem[k] = "#"
        THEN [state |-> "regex", src |-> ReplaceHash(stem, 1, FirstRun(stem)) \o Extension(name)]
        ELSE [state |-> "nullopt", src |-> << >>]

\* What std::wregex makes of an element of the expression: '.' matches any
\* character, (\d{n}) n digits, every other character itself
DigitsOf(e) == IF \E n \in 1..Len(DigitGroups) : e = DigitGroup(n)
               THEN CHOOSE n \in 1..Len(DigitGroups) : e = DigitGroup(n)
               ELSE 0

Width(e) == IF DigitsOf(e) = 0 THEN 1 ELSE DigitsOf(e)

MatchesAt(e, str, k) ==
    IF e = "." THEN TRUE
    ELSE IF DigitsOf(e) = 0 THEN str[k] = e
    ELSE \A j \in k..(k + DigitsOf(e) - 1) : str[j] = "1"

\* imageutil.cpp:607  std::regex_match(entry_name, *file_name_re): the whole
\* of str from position k against the elements of re from position i
RECURSIVE RegexMatch(_, _, _, _)
RegexMatch(re, i, str, k) ==
    IF i > Len(re) THEN k > Len(str)
    ELSE /\ k + Width(re[i]) - 1 <= Len(str)
         /\ MatchesAt(re[i], str, k)
         /\ RegexMatch(re, i + 1, str, k + Width(re[i]))

\* imageutil.cpp:596-600: file_name_re = ConvertInputToRegex(file name)
R_Convert ==
    /\ entry = "regex" /\ fileNameRe.state = "unset"
    /\ fileNameRe' = ConvertInputToRegex(fileName)
    /\ UNCHANGED <<lockVars, histVars, proc, seqVars, mainVars, imgVars, fileName, entryName,
                   matched>>

\* imageutil.cpp:602-612: one entry of the directory
R_Match ==
    /\ entry = "regex" /\ fileNameRe.state = "regex" /\ matched = "unset"
    /\ matched' = IF RegexMatch(fileNameRe.src, 1, entryName, 1) THEN "true" ELSE "false"
    /\ UNCHANGED <<lockVars, histVars, proc, seqVars, mainVars, imgVars, fileName, entryName,
                   fileNameRe>>

(***************************************************************************)
(* Spec: the lock coordinator driven by threads of one process that call   *)
(* CreateLockFile and RemoveLockFile on the same path in any order.        *)
(***************************************************************************)
CallAcquire(t) ==
    /\ entry = "lock" /\ pc[t] = "idle"
    /\ \E p \in LockPaths :
         /\ path' = [path EXCEPT ![t] = p]
         /\ cFresh' = [cFresh EXCEPT ![t] = ~Exists(marker[p])]
    /\ pc' = [pc EXCEPT ![t] = "CLF_lock"]
    /\ UNCHANGED <<now, marker, io_mutex, ret, why, grantLog, nonLockVars>>

CallRelease(t) ==
    /\ entry = "lock" /\ pc[t] = "idle"
    /\ \E p \in LockPaths : path' = [path EXCEPT ![t] = p]
    /\ pc' = [pc EXCEPT ![t] = "RLF_lock"]
    /\ UNCHANGED <<now, marker, io_mutex, ret, why, histVars, nonLockVars>>

CallReturn(t) ==
    /\ entry = "lock" /\ pc[t] \in {"CLF_ret", "RLF_ret"}
    /\ pc' = [pc EXCEPT ![t] = "idle"]
    /\ ret' = [ret EXCEPT ![t] = "none"]
    /\ why' = [why EXCEPT ![t] = "none"]
    /\ cFresh' = [cFresh EXCEPT ![t] = FALSE]
    /\ UNCHANGED <<now, marker, io_mutex, path, grantLog, nonLockVars>>

LockInit ==
    /\ now = 0
    /\ marker = [p \in Paths |-> NoMarker]
    /\ io_mutex = Free
    /\ pc = [t \in AllThreads |-> "idle"]
    /\ path = [t \in AllThreads |-> 1]
    /\ ret = [t \in AllThreads |-> "none"]
    /\ why = [t \in AllThreads |-> "none"]
    /\ cFresh = [t \in AllThreads |-> FALSE]
    /\ grantLog = [p \in Paths |-> << >>]
    /\ proc = "running"
    /\ entry = "lock"
    /\ SeqIdle

Init == LockInit

Next ==
    \/ \E t \in Threads : CallAcquire(t)
    \/ \E t \in Threads : CallRelease(t)
    \/ \E t \in Threads : CallReturn(t)
    \/ \E t \in Threads : CLF_Lock(t)
    \/ \E t \in Threads : CLF_Check(t)
    \/ \E t \in Threads : CLF_Create(t)
    \/ \E t \in Threads : RLF_Lock(t)
    \/ \E t \in Threads : RLF_Body(t)
    \/ Tick

Spec == Init /\ [][Next]_vars

(***************************************************************************)
(* Properties of the lock coordinator, checked under Spec.                 *)
(***************************************************************************)
\* Age thresholds of the claims, in ticks, stated without the code's
\* conversion to whole minutes.
YoungerThanFiveMinutes(from, to) == to - from < StaleMinutes * TicksPerMinute
OlderThanFiveMinutes(from, to) == to - from > StaleMinutes * TicksPerMinute

\* Two calls of CreateLockFile by different threads that have both returned,
\* were both made on the same path while it had no marker, with no release
\* on the path since.
ConcurrentFresh(t, u) ==
    /\ t # u
    /\ pc[t] = "CLF_ret" /\ pc[u] = "CLF_ret"
    /\ path[t] = path[u]
    /\ cFresh[t] /\ cFresh[u]

GrantedToOthers(p, t, u) ==
    \E i \in 1..Len(grantLog[p]) : grantLog[p][i].by \notin {t, u}

InspectStep(t) == pc[t] = "CLF_check" /\ pc'[t] # "CLF_check"
CreateStep(t) == pc[t] = "CLF_create" /\ pc'[t] = "CLF_ret"
ReleaseStep(t) == pc[t] = "RLF_body" /\ pc'[t] = "RLF_ret"
YoungMarker(p) == Exists(marker[p]) /\ YoungerThanFiveMinutes(marker[p].mtime, now)
OldMarker(p) == Exists(marker[p]) /\ OlderThanFiveMinutes(marker[p].mtime, now)

C2_Acquire(t) ==
    LET p == path[t]
    IN  /\ InspectStep(t) /\ YoungMarker(p) =>
            /\ pc'[t] = "CLF_ret"
            /\ ret'[t] \in {"false", "throw"}
            /\ ret'[t] = "throw" => why'[t] = "inspect_error"
            /\ marker' = marker
        /\ InspectStep(t) /\ ~YoungMarker(p) =>
            \/ pc'[t] = "CLF_create"
            \/ /\ pc'[t] = "CLF_ret" /\ ret'[t] = "throw"
               /\ why'[t] \in {"inspect_error", "remove_error"}
               /\ marker' = marker
        /\ CreateStep(t) =>
            \/ ret'[t] = "true" /\ Exists(marker'[p])
            \/ ret'[t] = "false" /\ why'[t] = "open_error" /\ marker' = marker

\* C2 (as amended): acquire on a path whose marker exists and is younger
\* than 5 minutes returns false, or throws when the modification time cannot
\* be read, and leaves every marker as it was; in every other case acquire
\* returns true with the marker present, unless reading the modification
\* time or removing the stale marker fails (it throws, markers unchanged) or
\* the marker cannot be opened for writing (it returns false).
C2_AcquireOutcome == [][\A t \in AllThreads : C2_Acquire(t)]_vars

\* An acquire has returned false on a busy path, the marker still in place.
C2_Witness ==
    \E t \in AllThreads :
        /\ pc[t] = "CLF_ret" /\ ret[t] = "false" /\ why[t] = "busy"
        /\ Exists(marker[path[t]])

C2_Claimed(t) ==
    LET p == path[t]
    IN  /\ InspectStep(t) /\ YoungMarker(p) =>
            pc'[t] = "CLF_ret" /\ ret'[t] = "false" /\ marker' = marker
        /\ InspectStep(t) /\ ~YoungMarker(p) => pc'[t] = "CLF_create"
        /\ CreateStep(t) => ret'[t] = "true" /\ Exists(marker'[p])

\* C2 as claimed: false and no change on a marker that is not stale; in
\* every other case the marker is present and the call returns true.
C2_AsClaimed == [][\A t \in AllThreads : C2_Claimed(t)]_vars

C3_Reclaim(t) ==
    LET p == path[t]
    IN  /\ InspectStep(t) /\ OldMarker(p) =>
            \/ /\ pc'[t] = "CLF_create" /\ why'[t] = "stale"
               /\ marker'[p] \in {NoMarker, marker[p]}
            \/ /\ pc'[t] = "CLF_ret" /\ ret'[t] = "throw"
               /\ why'[t] \in {"inspect_error", "remove_error"}
               /\ marker' = marker
        /\ CreateStep(t) /\ why[t] = "stale" =>
            \/ /\ ret'[t] = "true"
               /\ marker'[p] = [mtime |-> now, creator |-> t]
            \/ ret'[t] = "false" /\ why'[t] = "open_error"
        /\ InspectStep(t) /\ YoungMarker(p) => pc'[t] = "CLF_ret" /\ ret'[t] # "true"

\* A marker younger than 5 minutes changes only by a release of its path.
YoungMarkerKept(p) ==
    YoungMarker(p) /\ marker'[p] # marker[p] =>
        \E t \in AllThreads : path[t] = p /\ ReleaseStep(t)

\* C3 (as amended): acquire on a path whose marker is older than 5 minutes
\* deletes the marker and recreates it with the current time and returns
\* true, unless the modification time cannot be read or the deletion fails
\* with an error (acquire throws) or the marker cannot be opened for writing
\* (acquire returns false); an acquire that finds a marker younger than 5
\* minutes does not return true, and no acquire removes or rewrites such a
\* marker.
C3_StalenessReclaim ==
    [][(\A t \in AllThreads : C3_Reclaim(t)) /\ (\A p \in Paths : YoungMarkerKept(p))]_vars

\* An acquire has reclaimed a stale marker and returned true.
C3_Witness ==
    \E t \in AllThreads :
        /\ pc[t] = "CLF_ret" /\ ret[t] = "true" /\ why[t] = "stale"
        /\ marker[path[t]] = [mtime |-> now, creator |-> t]

C3_Claimed(t) ==
    LET p == path[t]
    IN  /\ InspectStep(t) /\ OldMarker(p) => pc'[t] = "CLF_create" /\ marker'[p] = NoMarker
        /\ CreateStep(t) /\ why[t] = "stale" =>
            ret'[t] = "true" /\ marker'[p] = [mtime |-> now, creator |-> t]
        /\ InspectStep(t) /\ YoungMarker(p) => pc'[t] = "CLF_ret" /\ ret'[t] = "false"

\* C3 as claimed: on a marker older than 5 minutes acquire always deletes,
\* recreates and returns true; on a younger one it returns false.
C3_AsClaimed ==
    [][(\A t \in AllThreads : C3_Claimed(t)) /\ (\A p \in Paths : YoungMarkerKept(p))]_vars

\* C4 as claimed: release returns true exactly when the marker does not
\* exist afterwards and false exactly when it still exists, and never
\* throws.
C4_AsClaimed ==
    [][\A t \in AllThreads :
          ReleaseStep(t) =>
              /\ ret'[t] \in {"true", "false"}
              /\ ret'[t] = "true" <=> ~Exists(marker'[path[t]])]_vars

(***************************************************************************)
(* SpecRun: one run of an entry point of the process on a directory that   *)
(* may hold markers left by other processes.                               *)
(***************************************************************************)
\* The listings of a directory: the matching frames, in iteration order.
\* The directory holds the frames 1 .. n and lists them upwards or downwards.
Listings ==
    UNION {{[k \in 1..n |-> k], [k \in 1..n |-> n + 1 - k]} : n \in 0..MaxInputs}

\* A marker another process left on the first frame: one tick younger than
\* stale, or stale.
LeftMarkers == {NoMarker, [mtime |-> 0, creator |-> 0], [mtime |-> 1, creator |-> 0]}

Requests ==
    {in \in [ext : Exts, stem : Stems, inDirOk : BOOLEAN, outDirOk : BOOLEAN, isSeq : BOOLEAN,
             fault : BOOLEAN, dir : Listings,
             threads : ThreadHints, hw : HwHints] :
        \* one thing wrong at most, and nothing listed of what is never read
        /\ Cardinality({k \in 1..5 : <<in.ext = << >>, ~in.inDirOk, ~in.outDirOk, ~in.isSeq,
                                        in.fault>>[k]}) <= 1
        /\ (in.ext = << >> \/ ~in.inDirOk \/ ~in.outDirOk \/ ~in.isSeq \/ in.fault) =>
               (in.dir = << >> /\ in.threads = 2)
        /\ in.threads # 0 => in.hw = 1}

\* The command lines of at most n arguments made of ArgGroups
RECURSIVE ArgListsUpTo(_)
ArgListsUpTo(n) ==
    IF n <= 0 THEN {<< >>}
    ELSE LET one == ArgListsUpTo(n - 1)
             two == ArgListsUpTo(n - 2)
         IN  {<< >>} \cup {g \o rest : g \in {a \in ArgGroups : Len(a) = 1}, rest \in one}
                     \cup {g \o rest : g \in {a \in ArgGroups : Len(a) = 2 /\ n >= 2}, rest \in two}

ArgLists == ArgListsUpTo(MaxArgs)

RunInit ==
    /\ now = StaleTicks
    /\ \E left \in LeftMarkers : marker = [p \in Paths |-> IF p \in LockPaths THEN left ELSE NoMarker]
    /\ io_mutex = Free
    /\ path = [t \in AllThreads |-> 1]
    /\ ret = [t \in AllThreads |-> "none"]
    /\ why = [t \in AllThreads |-> "none"]
    /\ cFresh = [t \in AllThreads |-> FALSE]
    /\ grantLog = [p \in Paths |-> << >>]
    /\ proc = "running"
    /\ entry \in {"sequence", "main"}
    /\ IF entry = "sequence"
         THEN /\ seqPc = "call"
              /\ seqIn \in Requests
              /\ argv = << >>
              /\ pc = [t \in AllThreads |-> "idle"]
         ELSE /\ seqPc = "none"
              /\ seqIn = NoRequest
              /\ argv \in ArgLists
              /\ pc = [t \in AllThreads |-> IF t = MainThread THEN "m_parse" ELSE "idle"]
    /\ inputs = << >>
    /\ seqRet = -1
    /\ wStart = [t \in AllThreads |-> 0]
    /\ wEnd = [t \in AllThreads |-> 0]
    /\ wIndex = [t \in AllThreads |-> 0]
    /\ wConv = [t \in AllThreads |-> 0]
    /\ wSite = [t \in AllThreads |-> "none"]
    /\ att = [i \in Indices |-> 0]
    /\ cur = [t \in AllThreads |-> NoItem]
    /\ written = {}
    /\ relFailed = {}
    /\ exitCode = -1
    /\ ImageIdle
    /\ RegexIdle

RunNext ==
    \/ SeqSetup
    \/ SeqPartition
    \/ SeqJoin
    \/ \E t \in AllThreads : W_Loop(t)
    \/ \E t \in AllThreads : W_Acquired(t)
    \/ \E t \in AllThreads : W_Convert(t)
    \/ \E t \in AllThreads : W_Catch(t)
    \/ \E t \in AllThreads : W_Released(t)
    \/ M_Parse
    \/ M_Acquired
    \/ M_Convert
    \/ M_Released
    \/ \E t \in AllThreads : CLF_Lock(t)
    \/ \E t \in AllThreads : CLF_Check(t)
    \/ \E t \in AllThreads : CLF_Create(t)
    \/ \E t \in AllThreads : RLF_Lock(t)
    \/ \E t \in AllThreads : RLF_Body(t)

SpecRun == RunInit /\ [][RunNext]_vars

(***************************************************************************)
(* Properties of the entry points, checked under SpecRun.                  *)
(***************************************************************************)
\* The caller of the lock calls of thread t has finished the item it took
\* up last: a worker is between items or done, wmain has returned.
ItemDone(t) == pc[t] \in {"w_loop", "w_done", "m_exit"}
Returned == seqPc = "returned" \/ pc[MainThread] = "m_exit"
OwnMarkers == {p \in Paths : Exists(marker[p]) /\ marker[p].creator # 0}

\* C5 (as amended): for every item on which acquire returned true, in a
\* sequence worker and in wmain, the conversion and then a release have run
\* when the item is done, whether the conversion returned 0, returned an
\* error or threw; and when ConvertSequence or wmain has returned, a marker
\* created by the run exists only where the last release returned false.
C5_GuaranteedRelease ==
    /\ \A t \in AllThreads :
         ItemDone(t) /\ cur[t].acq = "true" =>
            /\ cur[t].conv \in {"ok", "fail", "throw"}
            /\ cur[t].rel >= 1
            /\ cur[t].relRet \in {"true", "false"}
    /\ Returned => OwnMarkers \subseteq relFailed

\* A run has returned after an item whose conversion failed or threw, the
\* marker released.
C5_Witness ==
    /\ Returned
    /\ \E t \in AllThreads :
         /\ cur[t].acq = "true" /\ cur[t].conv \in {"fail", "throw"}
         /\ cur[t].relRet = "true"
         /\ ~Exists(marker[path[t]])

\* C5 as claimed: release runs after the conversion on every exit path, and
\* at the return of ConvertSequence or wmain no marker created by the run
\* exists.
C5_AsClaimed ==
    /\ \A t \in AllThreads :
         ItemDone(t) /\ cur[t].acq = "true" =>
            cur[t].conv \in {"ok", "fail", "throw"} /\ cur[t].rel >= 1
    /\ Returned => OwnMarkers = {}

\* The inputs of the run, by index, once the workers have their chunks.
Started == entry = "sequence" /\ seqPc \in {"join", "returned"} /\ seqRet # 1
WorkerCount == ActualThreads(seqIn.threads, seqIn.hw, N)
ItemFailed(t) ==
    \/ cur[t].acq \in {"false", "throw"}
    \/ cur[t].conv \in {"fail", "throw"}

\* C6 as claimed: with a worker count of 1 or more, every discovered input
\* is taken up once at most and, at the return, exactly once; an item that
\* failed (busy, conversion error, throw in acquire or convert) is logged
\* when done; and the process keeps running.
C6_AsClaimed ==
    entry = "sequence" /\ proc # "crash_div0" =>
        /\ proc = "running"
        /\ \A i \in Indices : att[i] <= 1
        /\ seqPc = "returned" /\ seqRet = 0 /\ WorkerCount > 0 =>
               \A i \in 0..(N - 1) : att[i] = 1
        /\ \A t \in AllThreads :
               pc[t] \in {"w_loop", "w_done"} /\ ItemFailed(t) => cur[t].log

SetupSucceeded ==
    /\ seqIn.ext # << >> /\ seqIn.inDirOk /\ seqIn.outDirOk /\ seqIn.isSeq
    /\ seqIn.dir # << >>

RECURSIVE DecimalValue(_)
DecimalValue(str) ==
    IF str = << >> THEN -1
    ELSE LET last == str[Len(str)]
             front == SubSeq(str, 1, Len(str) - 1)
             d == IF \E k \in 0..9 : last = Digit(k)
                  THEN CHOOSE k \in 0..9 : last = Digit(k)
                  ELSE -1
             high == IF front = << >> THEN 0 ELSE DecimalValue(front)
         IN  IF d = -1 \/ high = -1 THEN -1 ELSE high * 10 + d

Separators == {"-", "_", ".", " "}
\* base is the stem without the separators at its end
IsBaseOf(base, stem) ==
    /\ Len(base) <= Len(stem)
    /\ base = SubSeq(stem, 1, Len(base))
    /\ \A k \in (Len(base) + 1)..Len(stem) : stem[k] \in Separators
    /\ base # << >> => base[Len(base)] \notin Separators

\* out is <base>.<index><ext>
IsPositionalName(out, stem, index, ext) ==
    \E b \in 0..Len(stem) :
        LET base == SubSeq(stem, 1, b)
            digits == SubSeq(out, b + 2, Len(out) - Len(ext))
        IN  /\ IsBaseOf(base, stem)
            /\ Len(out) > b + 1 + Len(ext)
            /\ SubSeq(out, 1, b) = base
            /\ out[b + 1] = "."
            /\ DecimalValue(digits) = index
            /\ (Len(digits) > 1 => digits[1] # "0")
            /\ SubSeq(out, Len(out) - Len(ext) + 1, Len(out)) = ext

\* C8: every output path a worker computes is <base>.<index><ext> for the
\* index of the input in the discovered list, 0 <= index < n; different
\* indices give different paths; no index, and so no path, is taken by two
\* workers or twice; and at the return the indices used are 0 .. n-1.
C8_PositionalNaming ==
    entry = "sequence" =>
        /\ \A w \in written :
               /\ w.index \in 0..(N - 1)
               /\ IsPositionalName(w.out, seqIn.stem, w.index, seqIn.ext)
        /\ \A v, w \in written : v.out = w.out => v = w
        /\ \A i \in Indices : att[i] <= 1
        /\ seqPc = "returned" /\ seqRet = 0 /\ WorkerCount > 0 =>
               {w.index : w \in written} = 0..(N - 1)

\* ConvertSequence has returned with two outputs named by two workers.
C8_Witness ==
    /\ entry = "sequence" /\ seqPc = "returned" /\ seqRet = 0
    /\ \E v, w \in written : v.by # w.by /\ v.index = 0 /\ w.index = 1

(***************************************************************************)
(* SpecImage: one call of ConvertImage.                                    *)
(***************************************************************************)
Sizes == {-1, 0} \cup 1..MaxSize

\* The number of mip levels of a w x h source down to 1 x 1
RECURSIVE ChainLength(_, _)
ChainLength(w, h) == IF w = 1 /\ h = 1 THEN 1 ELSE 1 + ChainLength(Max(1, w \div 2), Max(1, h \div 2))

Images ==
    {i \in [w : 1..MaxDim, h : 1..MaxDim, levels : 1..MaxLevels] : i.levels <= ChainLength(i.w, i.h)}

\* The channel names a source can carry, and its lists of channels
MaxChannels == 2
ChannelNames == {"R", "G", "B", "A", "Y", "L", "RY"}
ChannelLists == UNION {[1..n -> ChannelNames] : n \in 1..MaxChannels}

\* Byte sizes of the input file, hi * 2^16 + lo: 1, 2^16, 2^31, 2^32 + 1
FileSizes ==
    {[hi |-> 0, lo |-> 1], [hi |-> 1, lo |-> 0], [hi |-> Pow2(15), lo |-> 0],
     [hi |-> Pow2(16), lo |-> 1]}

\* The source, channels and file size used where they are not what varies
PlainImage == [w |-> 2, h |-> 2, levels |-> 1]
PlainChannels == <<"R", "G", "B", "A">>
PlainFileSize == [hi |-> 0, lo |-> 1]

\* The attributes a source file can carry: none, one of its own, a colour
\* space other than sRGB, both
SourceAttrs ==
    {NoAttrs, "Artist" :> "x", "oiio:ColorSpace" :> "linear",
     ("Artist" :> "x") @@ ("oiio:ColorSpace" :> "linear")}

ImageInit ==
    /\ now = 0
    /\ marker = [p \in Paths |-> NoMarker]
    /\ io_mutex = Free
    /\ pc = [t \in AllThreads |-> "idle"]
    /\ path = [t \in AllThreads |-> 1]
    /\ ret = [t \in AllThreads |-> "none"]
    /\ why = [t \in AllThreads |-> "none"]
    /\ cFresh = [t \in AllThreads |-> FALSE]
    /\ grantLog = [p \in Paths |-> << >>]
    /\ proc = "running"
    /\ entry = "image"
    /\ seqPc = "none"
    /\ seqIn = NoRequest
    /\ inputs = << >>
    /\ seqRet = -1
    /\ wStart = [t \in AllThreads |-> 0]
    /\ wEnd = [t \in AllThreads |-> 0]
    /\ wIndex = [t \in AllThreads |-> 0]
    /\ wConv = [t \in AllThreads |-> 0]
    /\ wSite = [t \in AllThreads |-> "none"]
    /\ att = [i \in Indices |-> 0]
    /\ cur = [t \in AllThreads |-> NoItem]
    /\ written = {}
    /\ relFailed = {}
    /\ argv = << >>
    /\ exitCode = -1
    /\ \/ /\ img \in Images
          /\ sizeArg \in Sizes
          /\ chans = PlainChannels
          /\ fileSize = PlainFileSize
          /\ deep = FALSE
          /\ srcAttrs = NoAttrs
       \/ /\ img = PlainImage
          /\ sizeArg \in {-1, MaxSize}
          /\ chans \in ChannelLists
          /\ fileSize \in FileSizes
          /\ deep = FALSE
          /\ srcAttrs = NoAttrs
       \/ /\ img = PlainImage
          /\ sizeArg \in {-1, 0, MaxSize}
          /\ chans = PlainChannels
          /\ fileSize = PlainFileSize
          /\ deep \in BOOLEAN
          /\ srcAttrs \in SourceAttrs
    /\ size = sizeArg
    /\ ipc = "open"
    /\ miplevel = 0
    /\ best = -1
    /\ largest = NoSpec
    /\ bufSpec = NoSpec
    /\ outSize = NoSpec
    /\ result = [how |-> "none", w |-> 0, h |-> 0]
    /\ channel_indices = << >>
    /\ outAttrs = NoAttrs
    /\ wrOk = FALSE
    /\ outFile = "absent"
    /\ stageLog = {}
    /\ invalidated = {}
    /\ cret = "none"
    /\ RegexIdle

ImageNext ==
    \/ I_Open \/ I_Seek \/ I_Read \/ I_Channels \/ I_Flatten \/ I_Size \/ I_Fill \/ I_Color
    \/ I_Write \/ I_Verify

SpecImage == ImageInit /\ [][ImageNext]_vars

(***************************************************************************)
(* SpecRegex: ConvertInputToRegex on a file name, and one directory entry  *)
(* matched against the result.                                             *)
(***************************************************************************)
FileNames == UNION {[1..n -> NameChars \cup PrintfTokens] : n \in 1..MaxName}
EntryNames == UNION {[1..n -> EntryChars] : n \in 0..MaxEntry}

RegexInit ==
    /\ now = 0
    /\ marker = [p \in Paths |-> NoMarker]
    /\ io_mutex = Free
    /\ pc = [t \in AllThreads |-> "idle"]
    /\ path = [t \in AllThreads |-> 1]
    /\ ret = [t \in AllThreads |-> "none"]
    /\ why = [t \in AllThreads |-> "none"]
    /\ cFresh = [t \in AllThreads |-> FALSE]
    /\ grantLog = [p \in Paths |-> << >>]
    /\ proc = "running"
    /\ entry = "regex"
    /\ seqPc = "none"
    /\ seqIn = NoRequest
    /\ inputs = << >>
    /\ seqRet = -1
    /\ wStart = [t \in AllThreads |-> 0]
    /\ wEnd = [t \in AllThreads |-> 0]
    /\ wIndex = [t \in AllThreads |-> 0]
    /\ wConv = [t \in AllThreads |-> 0]
    /\ wSite = [t \in AllThreads |-> "none"]
    /\ att = [i \in Indices |-> 0]
    /\ cur = [t \in AllThreads |-> NoItem]
    /\ written = {}
    /\ relFailed = {}
    /\ argv = << >>
    /\ exitCode = -1
    /\ ImageIdle
    /\ fileName \in FileNames
    /\ entryName \in EntryNames
    /\ fileNameRe = [state |-> "unset", src |-> << >>]
    /\ matched = "unset"

RegexNext == R_Convert \/ R_Match

SpecRegex == RegexInit /\ [][RegexNext]_vars

(***************************************************************************)
(* Properties of ConvertImage, checked under SpecImage.                    *)
(***************************************************************************)
\* C9 as claimed: with size -1 the output has the size of mip level 0, each
\* edge rounded up to even.
C9_AsClaimed ==
    cret = "ret0" /\ sizeArg = -1 =>
        /\ result.w = EvenUp(img.w) /\ result.h = EvenUp(img.h)
        /\ result.w % 2 = 0 /\ result.h % 2 = 0

\* C10 as claimed: with a size S > 0 the longer edge of the output is S
\* rounded up to even, the shorter edge is within 1 of S times the ratio of
\* the source's shorter to its longer edge, no edge is above S rounded up to
\* even and both edges are even.
C10_AsClaimed ==
    cret = "ret0" /\ sizeArg > 0 =>
        LET S == sizeArg
            long == Max(result.w, result.h)
            short == Min(result.w, result.h)
            srcLong == Max(img.w, img.h)
            srcShort == Min(img.w, img.h)
        IN  /\ long = EvenUp(S)
            /\ short * srcLong - S * srcShort \in (0 - srcLong)..srcLong
            /\ result.w <= EvenUp(S) /\ result.h <= EvenUp(S)
            /\ result.w % 2 = 0 /\ result.h % 2 = 0

\* C11 as claimed: when the output path is missing or empty after the write,
\* ConvertImage returns 1 and the path does not exist afterwards; it returns 0
\* only when the path holds data and the write reported success.
C11_AsClaimed ==
    [][ipc = "verify" /\ ipc' = "done" =>
           /\ outFile \in {"absent", "empty"} => cret' = "ret1" /\ outFile' = "absent"
           /\ cret' = "ret0" => outFile = "data" /\ wrOk]_vars

\* The index (from 0) of the channel named nm in a list that holds it
IndexOf(names, nm) == (CHOOSE k \in 1..Len(names) : names[k] = nm) - 1

\* C12 as claimed: a source with the channels "Y" and "A", in either order, is
\* mapped to R = G = B = index of Y and A = index of A.
C12_AsClaimed ==
    channel_indices # << >> /\ chans \in {<<"Y", "A">>, <<"A", "Y">>} =>
        LET y == IndexOf(chans, "Y")
        IN  channel_indices = <<y, y, y, IndexOf(chans, "A")>>

\* The decimal digits of the byte size hi * 2^16 + lo, computed in two limbs
\* of base 10^4 (2^16 = 6 * 10^4 + 5536)
SizeDecimal(fs) ==
    LET low == fs.hi * 5536 + fs.lo
        q == fs.hi * 6 + low \div 10000
        r == low % 10000
        pad == [k \in 1..4 |-> Digit((r \div (10 ^ (4 - k))) % 10)]
    IN  IF q = 0 THEN ToWString(r) ELSE ToWString(q) \o pad

\* C13 as claimed: every output of a successful ConvertImage, resampled or
\* copied, carries the source byte size as the decimal string of the input
\* file's size, the colour space "sRGB", and two more attributes for the
\* source path and the conversion time.
C13_AsClaimed ==
    cret = "ret0" =>
        /\ {"SourceByteSize", "oiio:ColorSpace"} \subseteq DOMAIN outAttrs
        /\ outAttrs["SourceByteSize"] = SizeDecimal(fileSize)
        /\ outAttrs["oiio:ColorSpace"] = "sRGB"
        /\ Cardinality(DOMAIN outAttrs \ {"SourceByteSize", "oiio:ColorSpace"}) >= 2

\* C14 as claimed: every return of ConvertImage, with 0 or with 1 from any
\* stage, comes after the ImageCache entries of the input path and of the
\* output path were invalidated.
C14_AsClaimed == cret \in {"ret0", "ret1"} => {"input", "output"} \subseteq invalidated

(***************************************************************************)
(* Properties of wmain, checked under SpecRun.                             *)
(***************************************************************************)
\* C15 as claimed: wmain always comes to return; it returns 0 exactly when
\* ConvertImage succeeded and 1 otherwise, and after a busy lock it returns
\* without a call of RemoveLockFile.
C15_AsClaimed ==
    entry = "main" =>
        /\ proc = "running"
        /\ pc[MainThread] = "m_exit" =>
              /\ exitCode \in {0, 1}
              /\ exitCode = 0 <=> cur[MainThread].conv = "ok"
              /\ cur[MainThread].acq = "false" => cur[MainThread].rel = 0

(***************************************************************************)
(* Properties of ConvertInputToRegex, checked under SpecRegex.             *)
(***************************************************************************)
\* Whether str from position k is the expression re from element i with
\* every (\d{n}) replaced by n digits and every other element, '.' included,
\* standing for itself
RECURSIVE IsSubstituted(_, _, _, _)
IsSubstituted(re, i, str, k) ==
    IF i > Len(re) THEN k > Len(str)
    ELSE /\ k + Width(re[i]) - 1 <= Len(str)
         /\ IF DigitsOf(re[i]) = 0 THEN str[k] = re[i]
            ELSE \A j \in k..(k + DigitsOf(re[i]) - 1) : str[j] = "1"
         /\ IsSubstituted(re, i + 1, str, k + Width(re[i]))

\* C16 as claimed: the pattern derived from a file name with a %0Nd token or
\* a run of N '#' matches a directory entry if and only if the entry is the
\* file name with the token replaced by exactly N digits, every other
\* character, '.' included, being matched literally.
C16_AsClaimed ==
    matched # "unset" =>
        (matched = "true" <=> IsSubstituted(fileNameRe.src, 1, entryName, 1))

(***************************************************************************)
(* Properties of the worker loop and of wmain, checked under SpecRun.      *)
(***************************************************************************)
\* C17: when CreateLockFile returns false for an item, ConvertImage is not
\* run for it and RemoveLockFile is not called for it, and no item is tried
\* a second time within the invocation.
C17_ContentionSkip ==
    /\ \A t \in AllThreads :
         cur[t].acq = "false" => cur[t].conv = "none" /\ cur[t].rel = 0
    /\ \A i \in Indices : att[i] <= 1

\* A worker has gone on to its next item after CreateLockFile returned false
\* for the first frame, and the marker another process left there is still
\* in place.
C17_Witness ==
    \E t \in Threads :
        /\ entry = "sequence" /\ pc[t] = "w_loop"
        /\ cur[t].acq = "false" /\ wIndex[t] = 1 /\ att[0] = 1
        /\ marker[inputs[1]] # NoMarker /\ marker[inputs[1]].creator = 0

\* C18 as claimed: with n >= 1 discovered inputs the partition is made for
\* w = min(thread hint, n) workers (the hardware concurrency standing for a
\* hint of 0), and the chunks [start, end) of the workers follow one another
\* from 0 to n, cover every index exactly once, differ in size by 1 at most,
\* the first n mod w of them being the larger ones.
C18_AsClaimed ==
    entry = "sequence" /\ N >= 1 =>
        /\ proc # "crash_div0"
        /\ Started =>
             LET th == IF seqIn.threads = 0 THEN seqIn.hw ELSE seqIn.threads
                 workers == {t \in Threads : pc[t] # "idle"}
                 w == Cardinality(workers)
                 chunk(t) == wEnd[t] - wStart[t]
             IN  /\ th >= 0 => w = Min(th, N)
                 /\ workers = 1..w
                 /\ \A i \in 0..(N - 1) :
                        Cardinality({t \in workers : wStart[t] <= i /\ i < wEnd[t]}) = 1
                 /\ \A t \in workers :
                        /\ wStart[t] = (IF t = 1 THEN 0 ELSE wEnd[t - 1])
                        /\ chunk(t) = (N \div w) + (IF t <= N % w THEN 1 ELSE 0)

(***************************************************************************)
(* Properties of the mip level and the channels, checked under SpecImage.  *)
(***************************************************************************)
\* The mip levels of the source whose width and height are both at least
\* the effective target size
FittingLevels ==
    {l \in 0..(img.levels - 1) : MipSpec(img.w, img.h, l).w >= size /\ MipSpec(img.w, img.h, l).h >= size}

\* C19 as claimed: the level chosen is the fitting level of the smallest
\* width and height, also when levels differ in one dimension only, and
\* level 0 when no level fits.
C19_AsClaimed ==
    ipc \notin {"open", "seek"} /\ best # -1 =>
        IF FittingLevels = {} THEN best = 0
        ELSE /\ best \in FittingLevels
             /\ \A l \in FittingLevels :
                    /\ MipSpec(img.w, img.h, best).w <= MipSpec(img.w, img.h, l).w
                    /\ MipSpec(img.w, img.h, best).h <= MipSpec(img.w, img.h, l).h

\* The indices (from 0) of the channels of the source with a name in names
IndicesOf(names) == {k - 1 : k \in {j \in 1..Len(chans) : chans[j] \in names}}

\* C20 as claimed: R is the index of the first channel named "R", "Y", "L"
\* or "RY"; G, B and A are indices of channels named "G", "B" and "A"; R, G
\* and B without such a channel are 0, A without one is -1 with the fill
\* value 1.0; the mapping has 4 entries, each a source index or -1.
C20_AsClaimed ==
    channel_indices # << >> =>
        LET red == IndicesOf({"R", "Y", "L", "RY"})
            named(k, nm, none) ==
                IF IndicesOf({nm}) = {} THEN channel_indices[k] = none
                ELSE channel_indices[k] \in IndicesOf({nm})
        IN  /\ Len(channel_indices) = 4
            /\ \A k \in 1..4 : channel_indices[k] \in -1..(Len(chans) - 1)
            /\ IF red = {} THEN channel_indices[1] = 0
               ELSE channel_indices[1] \in red /\ \A i \in red : channel_indices[1] <= i
            /\ named(2, "G", 0) /\ named(3, "B", 0) /\ named(4, "A", -1)
            /\ channel_indices[4] = -1 => fill_values[4] = "1.0f"

(***************************************************************************)
(* Properties of the stages of ConvertImage, checked under SpecImage.      *)
(***************************************************************************)
\* C21: a failure of flatten or of colorconvert does not end the conversion:
\* the next stage follows and nothing is returned by that step; and whenever
\* the write reported success and the check after it found a non-empty file,
\* ConvertImage returns 0, whatever stage was passed over before.
C21_NonFatalStages ==
    [][/\ stageLog' # stageLog => cret' = "none" /\ ipc' \in {"size", "write"}
       /\ ipc = "verify" /\ ipc' = "done" /\ wrOk /\ outFile = "data" /\ cret' # "throw" =>
              cret' = "ret0"]_vars

\* ConvertImage has returned 0 after both flatten and colorconvert failed.
C21_Witness == cret = "ret0" /\ stageLog = {"flatten", "colorconvert"}

\* C22 as claimed: with size 0 every source, odd-sized and non-square ones
\* included, is copied unchanged: no resample, and the output has the
\* dimensions of the source buffer.
C22_AsClaimed ==
    cret = "ret0" /\ sizeArg = 0 =>
        /\ result.how = "copy"
        /\ result.w = bufSpec.w /\ result.h = bufSpec.h

\* C23 as claimed: when the source cannot be created or opened, the case of
\* no handle at all included, ConvertImage returns 1 in a controlled way: no
\* later stage has run and the output path is not written.
C23_AsClaimed ==
    ipc = "done" /\ best = -1 =>
        /\ cret = "ret1"
        /\ bufSpec = NoSpec /\ channel_indices = << >> /\ result.how = "none"
        /\ outFile = "absent"

(***************************************************************************)
(* Properties of ConvertSequence's setup, checked under SpecRun.           *)
(***************************************************************************)
\* C24: when the setup of ConvertSequence fails (empty output extension, a
\* missing parent directory, no sequence token, no matching file) it returns
\* 1, and no worker was started, no marker was created or removed and no
\* output was written.
C24_SetupSideEffectFree ==
    entry = "sequence" /\ ~SetupSucceeded /\ seqPc \notin {"call", "threw"} =>
        /\ seqPc = "returned" /\ seqRet = 1
        /\ \A t \in Threads : pc[t] = "idle" /\ cur[t] = NoItem
        /\ \A i \in Indices : att[i] = 0
        /\ written = {}
        /\ \A p \in Paths : marker[p] = NoMarker \/ marker[p].creator = 0
        /\ \A p \in Paths : grantLog[p] = << >>

\* ConvertSequence has returned 1 because no file matched, and the marker
\* another process left is still in place.
C24_Witness ==
    /\ entry = "sequence" /\ seqPc = "returned" /\ seqRet = 1
    /\ seqIn.ext # << >> /\ seqIn.inDirOk /\ seqIn.outDirOk /\ seqIn.isSeq /\ seqIn.dir = << >>
    /\ \E p \in Paths : marker[p] # NoMarker /\ marker[p].creator = 0

(***************************************************************************)
(* Properties of the output's attributes, checked under SpecImage.         *)
(***************************************************************************)
\* C25 as claimed: after a successful conversion, resampled or copied, no
\* attribute of the source is among the attributes of the output: these are
\* only the ones ConvertImage sets itself.
C25_AsClaimed ==
    cret = "ret0" => DOMAIN outAttrs \subseteq {"SourceByteSize", "oiio:ColorSpace"}


(***************************************************************************)
(* SpecCallers: threads of one process that each run, again and again and  *)
(* on the same path, the body process_images runs for one item             *)
(* (imageutil.cpp:633-653): CreateLockFile, ConvertImage, RemoveLockFile,  *)
(* with the catch block's RemoveLockFile.  The clock advances while they   *)
(* run, so a conversion lasts any time.                                    *)
(***************************************************************************)
\* Two callers contend for the path, each of them again and again.
Callers == {1, 2}

\* imageutil.cpp:633-634: WriteProgress, CreateLockFile(i)
P_Call(t) ==
    /\ Running /\ entry = "callers" /\ pc[t] = "idle"
    /\ MutexAvailable(t)
    /\ \E p \in LockPaths : path' = [path EXCEPT ![t] = p]
    /\ pc' = [pc EXCEPT ![t] = "CLF_lock"]
    /\ UNCHANGED <<now, marker, io_mutex, ret, why, histVars, cur, proc, entry, seqPc, seqIn, inputs,
                   seqRet, wStart, wEnd, wIndex, wConv, wSite, att, written, relFailed, mainVars,
                   imgVars, regexVars>>

\* imageutil.cpp:634-637 and 649: the return of CreateLockFile
P_Acquired(t) ==
    /\ Running /\ entry = "callers" /\ pc[t] = "CLF_ret"
    /\ LET go == AfterAcquire(ret[t])
       IN  /\ go = "w_next" => MutexAvailable(t)
           /\ pc' = [pc EXCEPT ![t] = IF go = "w_next" THEN "idle" ELSE go]
           /\ cur' = [cur EXCEPT ![t].acq = IF go = "w_next" THEN "none" ELSE ret[t]]
    /\ ret' = [ret EXCEPT ![t] = "none"]
    /\ why' = [why EXCEPT ![t] = "none"]
    /\ UNCHANGED <<now, marker, io_mutex, path, histVars, proc, entry, seqPc, seqIn, inputs,
                   seqRet, wStart, wEnd, wIndex, wConv, wSite, att, written, relFailed, mainVars,
                   imgVars, regexVars>>

\* imageutil.cpp:639-643: ConvertImage, WriteProgress, RemoveLockFile(i).
\* The value ConvertImage returned is read again only after the release
\* (644), so it is drawn there.
P_Convert(t) ==
    /\ Running /\ entry = "callers" /\ pc[t] = "w_convert"
    /\ MutexAvailable(t)
    /\ \E o \in ConvertOutcomes :
         LET go == AfterConvert(o)
         IN  IF go = "dead"
               THEN proc' = "crash_convert" /\ UNCHANGED <<pc, wSite>>
               ELSE /\ pc' = [pc EXCEPT ![t] = go]
                    /\ wSite' = [wSite EXCEPT ![t] = "try"]
                    /\ UNCHANGED proc
    /\ UNCHANGED <<now, marker, io_mutex, path, ret, why, histVars, entry, seqPc, seqIn, inputs,
                   seqRet, wStart, wEnd, wIndex, wConv, att, cur, written, relFailed, mainVars,
                   imgVars, regexVars>>

\* imageutil.cpp:649-653: catch (const std::exception &), WriteError, RemoveLockFile(i)
P_Catch(t) ==
    /\ Running /\ entry = "callers" /\ pc[t] = "w_catch"
    /\ MutexAvailable(t)
    /\ pc' = [pc EXCEPT ![t] = "RLF_lock"]
    /\ wSite' = [wSite EXCEPT ![t] = "catch"]
    /\ UNCHANGED <<now, marker, io_mutex, path, ret, why, histVars, proc, entry, seqPc, seqIn,
                   inputs, seqRet, wStart, wEnd, wIndex, wConv, att, cur, written, relFailed,
                   mainVars, imgVars, regexVars>>

\* imageutil.cpp:643-648 and 652-654: the return of RemoveLockFile, and
\* WriteError when ConvertImage had returned r # 0
P_Released(t) ==
    /\ Running /\ entry = "callers" /\ pc[t] = "RLF_ret"
    /\ \E r \in {0, 1} :
         LET go == AfterRelease(wSite[t], ret[t])
             err == go = "w_next" /\ wSite[t] = "try" /\ r # 0
         IN  /\ err => MutexAvailable(t)
             /\ cur' = [cur EXCEPT ![t].acq = IF go = "w_next" THEN "none" ELSE @]
             /\ IF go = "dead"
                  THEN proc' = "terminate" /\ UNCHANGED <<pc, wSite>>
                  ELSE /\ pc' = [pc EXCEPT ![t] = IF go = "w_next" THEN "idle" ELSE go]
                       /\ wSite' = [wSite EXCEPT ![t] = IF go = "w_next" THEN "none" ELSE @]
                       /\ UNCHANGED proc
    /\ ret' = [ret EXCEPT ![t] = "none"]
    /\ why' = [why EXCEPT ![t] = "none"]
    /\ UNCHANGED <<now, marker, io_mutex, path, histVars, entry, seqPc, seqIn, inputs, seqRet,
                   wStart, wEnd, wIndex, wConv, att, written, relFailed, mainVars, imgVars,
                   regexVars>>

CallersInit ==
    /\ now = 0
    /\ marker = [p \in Paths |-> NoMarker]
    /\ io_mutex = Free
    /\ pc = [t \in AllThreads |-> "idle"]
    /\ path = [t \in AllThreads |-> 1]
    /\ ret = [t \in AllThreads |-> "none"]
    /\ why = [t \in AllThreads |-> "none"]
    /\ cFresh = [t \in AllThreads |-> FALSE]
    /\ grantLog = [p \in Paths |-> << >>]
    /\ proc = "running"
    /\ entry = "callers"
    /\ SeqIdle

CallersNext ==
    \/ \E t \in Callers : P_Call(t)
    \/ \E t \in Callers : P_Acquired(t)
    \/ \E t \in Callers : P_Convert(t)
    \/ \E t \in Callers : P_Catch(t)
    \/ \E t \in Callers : P_Released(t)
    \/ \E t \in Callers : CLF_Lock(t)
    \/ \E t \in Callers : CLF_Check(t)
    \/ \E t \in Callers : CLF_Create(t)
    \/ \E t \in Callers : RLF_Lock(t)
    \/ \E t \in Callers : RLF_Body(t)
    \/ Tick

SpecCallers == CallersInit /\ [][CallersNext]_vars

(***************************************************************************)
(* Properties of contending callers, checked under SpecCallers.            *)
(***************************************************************************)
\* t is between an acquire of p that returned true and the return of the
\* release that follows it.
Holds(t, p) ==
    /\ path[t] = p
    /\ \/ pc[t] = "CLF_ret" /\ ret[t] = "true"
       \/ cur[t].acq = "true" /\ pc[t] \in {"w_convert", "w_catch", "RLF_lock", "RLF_body"}

\* The acquire of t returns true in this step while u holds the same path.
GrantedBeside(t, u) ==
    /\ t # u
    /\ CreateStep(t) /\ ret'[t] = "true"
    /\ Holds(u, path[t])

\* C26 (as amended): while one caller holds a path, the acquire of another
\* caller on that path returns true only if the holder was granted the path
\* at least 5 minutes before (its marker was reclaimed as stale) or a
\* release by another caller has run on the path since the holder's grant.
C26_MutualExclusion ==
    [][\A t, u \in Callers :
         GrantedBeside(t, u) =>
            LET log == grantLog[path[t]]
            IN  /\ why[t] \in {"stale", "absent"}
                /\ \A k \in 1..Len(log) :
                      log[k].by = u => ~YoungerThanFiveMinutes(log[k].time, now)]_vars

\* Two callers hold the path at once, the second after it reclaimed the
\* marker of the first, whose conversion has lasted 5 minutes.
C26_Witness ==
    \E t, u \in Callers :
        /\ t # u
        /\ Holds(t, 1) /\ pc[t] = "w_convert"
        /\ Holds(u, 1) /\ pc[u] = "w_convert"
        /\ marker[1].creator = u /\ Len(grantLog[1]) = 2
        /\ ~YoungerThanFiveMinutes(grantLog[1][1].time, grantLog[1][2].time)

\* C26 as claimed: at most one caller holds a path at any moment, and the
\* release of a holder deletes only the marker the holder created.
C26_AsClaimed ==
    [][/\ \A t, u \in Callers : ~GrantedBeside(t, u)
       /\ \A t \in Callers :
            ReleaseStep(t) /\ Holds(t, path[t]) /\ marker'[path[t]] # marker[path[t]] =>
                marker[path[t]].creator = t]_vars

(***************************************************************************)
(* Properties of the release, checked under SpecRun.                       *)
(***************************************************************************)
\* C27 as claimed: RemoveLockFile runs on a path only for a caller (sequence
\* worker or single-file main) whose CreateLockFile on that path returned
\* true; a caller whose acquire returned false or threw deletes no marker.
C27_AsClaimed ==
    [][\A t \in AllThreads :
         ReleaseStep(t) /\ entry \in {"sequence", "main"} => cur[t].acq = "true"]_vars

(***************************************************************************)
(* SpecRunFair: SpecRun with threads that keep running.  Every thread the  *)
(* process has started is scheduled again and again, and a thread blocked  *)
(* on io_mutex gets it once it is free (std::mutex, lock_guard), so a step *)
(* that stays enabled is taken.                                            *)
(***************************************************************************)
ThreadStep(t) ==
    \/ W_Loop(t) \/ W_Acquired(t) \/ W_Convert(t) \/ W_Catch(t) \/ W_Released(t)
    \/ LockStep(t)

SpecRunFair ==
    /\ RunInit /\ [][RunNext]_vars
    /\ \A t \in AllThreads : WF_vars(ThreadStep(t))
    /\ WF_vars(SeqSetup \/ SeqPartition \/ SeqJoin)
    /\ WF_vars(M_Parse \/ M_Acquired \/ M_Convert \/ M_Released)

\* The call of ConvertSequence is over: it returned, or left by the
\* exception of its setup.
SequenceOver == seqPc \in {"returned", "threw"}

\* Every call of ConvertImage made so far has returned to its caller.
ConversionsReturn == \A t \in AllThreads : cur[t].conv \in {"none", "ok", "fail"}

\* C28 as claimed: no thread requests io_mutex while holding it, a thread
\* holds it only inside CreateLockFile or RemoveLockFile, and, if every
\* call of ConvertImage returns, ConvertSequence eventually returns.
C28_AsClaimed ==
    /\ [](\A t \in AllThreads : io_mutex = t => pc[t] \in {"CLF_check", "CLF_create", "RLF_body"})
    /\ (entry = "sequence" /\ []ConversionsReturn) => <>SequenceOver

(***************************************************************************)
(* Properties of the worker count, checked under SpecRun.                  *)
(***************************************************************************)
\* C29 as claimed: for every thread hint and n >= 1 discovered inputs the
\* worker count lies in 1 .. n, and the chunk-size division is never taken
\* with a zero divisor, also when the hardware concurrency is reported as 0.
C29_AsClaimed ==
    entry = "sequence" /\ N >= 1 =>
        /\ 1 <= WorkerCount /\ WorkerCount <= N
        /\ proc # "crash_div0"

(***************************************************************************)
(* SpecOlder: the older single-image entry points, convert_image           *)
(* (pyimageutil.cpp:298-414) and make_thumbnail (oiioutil.cpp:234-338).    *)
(* Both lock the output path: marker[1] is <output>.lock, the main thread  *)
(* runs the call, argv holds the size argument, ret[MainThread] the value  *)
(* returned, and cur[MainThread] records the lock creation (acq: "true",   *)
(* "false", or "locked" when the marker was found) and the removals (rel,  *)
(* relRet).                                                                *)
(***************************************************************************)
\* pyimageutil.cpp:331  if (_max_edge > 25000 || max_size > 25000)
LargestEdge == 25000

\* The size arguments of a call
OlderSizes == {-1, 0, MaxSize, LargestEdge + 1}

\* pyimageutil.cpp:38-46: std::ifstream(f + ".lock") opens
is_locked(m, readOk) == Exists(m) /\ readOk

\* pyimageutil.cpp:69-79 (_create_lock): std::ofstream(f + ".lock") creates
\* or truncates the marker
create_lock(m, t, who, openOk) ==
    IF openOk THEN [ret |-> "true", marker |-> [mtime |-> t, creator |-> who]]
    ELSE [ret |-> "false", marker |-> m]

\* Variant of remove_lock: the return path makes no call to remove the marker
remove_lock_skipped(m, rmOk) == [ret |-> "none", marker |-> m]

\* pyimageutil.cpp:82-92 (_remove_lock) and oiioutil.cpp:214-225
\* (remove_lock_file, which returns nothing): std::remove(f + ".lock")
remove_lock(m, rmOk) ==
    IF Exists(m) /\ rmOk THEN [ret |-> "true", marker |-> NoMarker]
    ELSE [ret |-> "false", marker |-> m]

\* oiioutil.cpp:189-211: the marker can be read -> false; otherwise it is
\* created or truncated
create_lock_file(m, t, who, readOk, openOk) ==
    IF Exists(m) /\ readOk THEN [ret |-> "locked", marker |-> m]
    ELSE create_lock(m, t, who, openOk)

\* The call returns v; acq is what became of the lock creation and r the
\* outcome of the removal made on the way out
OlderReturn(v, acq, r) ==
    /\ pc' = [pc EXCEPT ![MainThread] = "returned"]
    /\ ret' = [ret EXCEPT ![MainThread] = v]
    /\ marker' = [marker EXCEPT ![1] = r.marker]
    /\ cur' = [cur EXCEPT ![MainThread].acq = acq,
                          ![MainThread].rel = IF r.ret = "none" THEN @ ELSE @ + 1,
                          ![MainThread].relRet = r.ret]

\* No removal on the way out
NoRemoval == [ret |-> "none", marker |-> marker[1]]

\* The call goes on at position next
OlderGoOn(next) ==
    /\ pc' = [pc EXCEPT ![MainThread] = next]
    /\ UNCHANGED <<marker, ret, cur>>

\* pyimageutil.cpp:304-318: is_valid_file, is_locked, _create_lock
CI_Check ==
    /\ entry = "convert_image" /\ pc[MainThread] = "ci_check"
    /\ \E valid, readOk, openOk \in BOOLEAN :
         IF ~valid THEN OlderReturn("false", "none", NoRemoval)
         ELSE IF is_locked(marker[1], readOk) THEN OlderReturn("false", "locked", NoRemoval)
         ELSE LET r == create_lock(marker[1], now, MainThread, openOk)
              IN  IF r.ret = "false" THEN OlderReturn("false", "false", NoRemoval)
                  ELSE /\ pc' = [pc EXCEPT ![MainThread] = "ci_load"]
                       /\ marker' = [marker EXCEPT ![1] = r.marker]
                       /\ cur' = [cur EXCEPT ![MainThread].acq = "true"]
                       /\ UNCHANGED ret
    /\ UNCHANGED <<now, io_mutex, path, why, histVars, proc, entry, seqPc, seqIn, inputs, seqRet,
                   wStart, wEnd, wIndex, wConv, wSite, att, written, relFailed, mainVars, imgVars,
                   regexVars>>

\* pyimageutil.cpp:321-325: get_buf, buf.initialized()
CI_Load ==
    /\ entry = "convert_image" /\ pc[MainThread] = "ci_load"
    /\ \E loaded, rmOk \in BOOLEAN :
         IF ~loaded THEN OlderReturn("false", "true", remove_lock(marker[1], rmOk))
         ELSE OlderGoOn("ci_size")
    /\ UNCHANGED <<now, io_mutex, path, why, histVars, proc, entry, seqPc, seqIn, inputs, seqRet,
                   wStart, wEnd, wIndex, wConv, wSite, att, written, relFailed, mainVars, imgVars,
                   regexVars>>

\* pyimageutil.cpp:328-336: the longer edge of the source and max_size
\* against 25000
CI_Size ==
    /\ entry = "convert_image" /\ pc[MainThread] = "ci_size"
    /\ \E _max_edge \in {1, MaxSize, LargestEdge + 1}, rmOk \in BOOLEAN :
         IF _max_edge > LargestEdge \/ argv[1] > LargestEdge
            THEN OlderReturn("false", "true", remove_lock(marker[1], rmOk))
            ELSE OlderGoOn(IF _max_edge # argv[1] /\ argv[1] > 0 THEN "ci_resize" ELSE "ci_write")
    /\ UNCHANGED <<now, io_mutex, path, why, histVars, proc, entry, seqPc, seqIn, inputs, seqRet,
                   wStart, wEnd, wIndex, wConv, wSite, att, written, relFailed, mainVars, imgVars,
                   regexVars>>

\* pyimageutil.cpp:338-384: ImageBufAlgo::fit
CI_Resize ==
    /\ entry = "convert_image" /\ pc[MainThread] = "ci_resize"
    /\ \E fitOk, rmOk \in BOOLEAN :
         IF ~fitOk THEN OlderReturn("false", "true", remove_lock(marker[1], rmOk))
         ELSE OlderGoOn("ci_write")
    /\ UNCHANGED <<now, io_mutex, path, why, histVars, proc, entry, seqPc, seqIn, inputs, seqRet,
                   wStart, wEnd, wIndex, wConv, wSite, att, written, relFailed, mainVars, imgVars,
                   regexVars>>

\* pyimageutil.cpp:386-413: extra_attribs.clear(), write, _remove_lock
CI_Write ==
    /\ entry = "convert_image" /\ pc[MainThread] = "ci_write"
    /\ \E wrote, rmOk \in BOOLEAN :
         OlderReturn(IF wrote THEN "true" ELSE "false", "true", remove_lock(marker[1], rmOk))
    /\ UNCHANGED <<now, io_mutex, path, why, histVars, proc, entry, seqPc, seqIn, inputs, seqRet,
                   wStart, wEnd, wIndex, wConv, wSite, att, written, relFailed, mainVars, imgVars,
                   regexVars>>

\* oiioutil.cpp:242-252: _is_file, create_lock_file.  The bool function
\* returns 1 on every failure and 0 on success.
MT_Check ==
    /\ entry = "make_thumbnail" /\ pc[MainThread] = "mt_check"
    /\ \E isFile, readOk, openOk \in BOOLEAN :
         IF ~isFile THEN OlderReturn("1", "none", NoRemoval)
         ELSE LET r == create_lock_file(marker[1], now, MainThread, readOk, openOk)
              IN  IF r.ret # "true" THEN OlderReturn("1", r.ret, NoRemoval)
                  ELSE /\ pc' = [pc EXCEPT ![MainThread] = "mt_load"]
                       /\ marker' = [marker EXCEPT ![1] = r.marker]
                       /\ cur' = [cur EXCEPT ![MainThread].acq = "true"]
                       /\ UNCHANGED ret
    /\ UNCHANGED <<now, io_mutex, path, why, histVars, proc, entry, seqPc, seqIn, inputs, seqRet,
                   wStart, wEnd, wIndex, wConv, wSite, att, written, relFailed, mainVars, imgVars,
                   regexVars>>

\* oiioutil.cpp:254-261: get_buf, buf.initialized()
MT_Load ==
    /\ entry = "make_thumbnail" /\ pc[MainThread] = "mt_load"
    /\ \E loaded, rmOk \in BOOLEAN :
         IF ~loaded THEN OlderReturn("1", "true", remove_lock(marker[1], rmOk))
         ELSE OlderGoOn("mt_movie")
    /\ UNCHANGED <<now, io_mutex, path, why, histVars, proc, entry, seqPc, seqIn, inputs, seqRet,
                   wStart, wEnd, wIndex, wConv, wSite, att, written, relFailed, mainVars, imgVars,
                   regexVars>>

\* oiioutil.cpp:269-303: a movie that is too short, or whose codec is in
\* the list, is given up
MT_Movie ==
    /\ entry = "make_thumbnail" /\ pc[MainThread] = "mt_movie"
    /\ \E movie, short, listed, rmOk \in BOOLEAN :
         IF movie /\ (short \/ listed)
            THEN OlderReturn("1", "true", remove_lock(marker[1], rmOk))
            ELSE OlderGoOn("mt_write")
    /\ UNCHANGED <<now, io_mutex, path, why, histVars, proc, entry, seqPc, seqIn, inputs, seqRet,
                   wStart, wEnd, wIndex, wConv, wSite, att, written, relFailed, mainVars, imgVars,
                   regexVars>>

\* oiioutil.cpp:305-337: resize, shuffle, flatten, colorconvert, write,
\* remove_lock_file
MT_Write ==
    /\ entry = "make_thumbnail" /\ pc[MainThread] = "mt_write"
    /\ \E wrote, rmOk \in BOOLEAN :
         OlderReturn(IF wrote THEN "0" ELSE "1", "true", remove_lock(marker[1], rmOk))
    /\ UNCHANGED <<now, io_mutex, path, why, histVars, proc, entry, seqPc, seqIn, inputs, seqRet,
                   wStart, wEnd, wIndex, wConv, wSite, att, written, relFailed, mainVars, imgVars,
                   regexVars>>

OlderInit ==
    /\ now = StaleTicks
    /\ \E left \in LeftMarkers : marker = [p \in Paths |-> IF p = 1 THEN left ELSE NoMarker]
    /\ io_mutex = Free
    /\ entry \in {"convert_image", "make_thumbnail"}
    /\ pc = [t \in AllThreads |-> IF t # MainThread THEN "idle"
                                  ELSE IF entry = "convert_image" THEN "ci_check" ELSE "mt_check"]
    /\ path = [t \in AllThreads |-> 1]
    /\ ret = [t \in AllThreads |-> "none"]
    /\ why = [t \in AllThreads |-> "none"]
    /\ cFresh = [t \in AllThreads |-> FALSE]
    /\ grantLog = [p \in Paths |-> << >>]
    /\ proc = "running"
    /\ seqPc = "none"
    /\ seqIn = NoRequest
    /\ inputs = << >>
    /\ seqRet = -1
    /\ wStart = [t \in AllThreads |-> 0]
    /\ wEnd = [t \in AllThreads |-> 0]
    /\ wIndex = [t \in AllThreads |-> 0]
    /\ wConv = [t \in AllThreads |-> 0]
    /\ wSite = [t \in AllThreads |-> "none"]
    /\ att = [i \in Indices |-> 0]
    /\ cur = [t \in AllThreads |-> NoItem]
    /\ written = {}
    /\ relFailed = {}
    /\ \E s \in OlderSizes : argv = <<s>>
    /\ exitCode = -1
    /\ ImageIdle
    /\ RegexIdle

OlderNext ==
    \/ CI_Check \/ CI_Load \/ CI_Size \/ CI_Resize \/ CI_Write
    \/ MT_Check \/ MT_Load \/ MT_Movie \/ MT_Write

SpecOlder == OlderInit /\ [][OlderNext]_vars

(***************************************************************************)
(* Properties of the older entry points, checked under SpecOlder.          *)
(***************************************************************************)
OlderReturned == pc[MainThread] = "returned"

====
